---- MODULE Spec2Model ----
(***************************************************************************)
(* Model of azurelinuxagent/ga/exthandlers.py: the extension handler       *)
(* orchestrator (ExtHandlersHandler) and the per-handler lifecycle engine  *)
(* (ExtHandlerInstance).                                                   *)
(*                                                                         *)
(* Versions are kept in parsed form: a sequence of naturals (FlexibleVersion*)
(* of "1.0.5" is <<1, 0, 5>>); the requested version "1.*" is the prefix   *)
(* <<1>>.  The empty sequence stands for None.                             *)
(***************************************************************************)
EXTENDS Integers, Sequences, FiniteSets, TLC

\* ------------------------------------------------------------------------
\* Bounds of the model
\* ------------------------------------------------------------------------

\* number of run() passes in one behaviour
MaxPasses == 3

\* length of the package list handed to decide_version (version-decision runs)
MaxPkgs == 4

\* entries of the library directory listed to get_installed_version
MaxDirs == 3

\* URIs of the package handed to download() (download runs)
MaxUris == 2

\* ------------------------------------------------------------------------
\* Program constants
\* ------------------------------------------------------------------------

NoVersion == <<>>

NotInstalled == "NotInstalled"
Installed == "Installed"
Enabled == "Enabled"
Failed == "Failed"
\* a missing config/HandlerState file
NoStateFile == "NoStateFile"

\* ------------------------------------------------------------------------
\* FlexibleVersion (azurelinuxagent.common.utils.flexible_version)
\* ------------------------------------------------------------------------

Max(S) == CHOOSE x \in S : \A y \in S : y <= x

\* component i of v, a missing component counting as 0 (x.y equals x.y.0)
Comp(v, i) == IF i <= Len(v) THEN v[i] ELSE 0

VersionEq(a, b) ==
    \A i \in 1..Max({Len(a), Len(b), 1}) : Comp(a, i) = Comp(b, i)

\* component-wise numeric order
VersionLT(a, b) ==
    \E i \in 1..Max({Len(a), Len(b), 1}) :
        /\ Comp(a, i) < Comp(b, i)
        /\ \A j \in 1..(i - 1) : Comp(a, j) = Comp(b, j)

VersionGT(a, b) == VersionLT(b, a)

\* requested.matches(that): every component of the requested version is the
\* component of that at the same place ("1.*" matches 1.0.5)
Matches(requested, that) ==
    /\ Len(requested) <= Len(that)
    /\ \A i \in 1..Len(requested) : requested[i] = that[i]

\* ------------------------------------------------------------------------
\* Goal state, packages, library directory
\* ------------------------------------------------------------------------

\* ext_handler.properties.extensions[k].sequenceNumber is None
NoSeq == -2

\* sequence numbers of the <seq>.settings and <seq>.status files
StatusSeqs == {0, 1}

\* content of status/<seq>.status as collect_ext_status reads it
\* ("error" stands for a reported error and for a malformed document alike)
Missing == "missing"
StatusContents == {Missing, "transitioning", "success", "error"}

EXTENSION_TERMINAL_STATUSES == {"error", "success"}
EXTENSION_STATUS_SUCCESS == "success"

\* HandlerManifest.json of a package
Manifest(cont, uwi, hb) ==
    [continueOnUpdateFailure |-> cont, updateWithInstall |-> uwi, reportHeartbeat |-> hb]

DefaultManifest == Manifest(FALSE, TRUE, FALSE)

\* names a package zip of Name-Version has in the library directory
DashZip == "Name-Version.zip"
UnderZip == "Name__Version.zip"

\* one entry of protocol.get_ext_handler_pkgs(handler).versions; zip is the
\* destination download() derives from the first URI, basename + ".zip"
Pkg(v, nuris, man) == [version |-> v, uris |-> nuris, man |-> man, zip |-> UnderZip]

NoPkg == Pkg(NoVersion, 0, DefaultManifest)

\* one ExtHandler of the goal state
Handler(n, v, st, exts, key) ==
    [name |-> n, version |-> v, state |-> st, extensions |-> exts, sortKey |-> key]

Ext(s) == [sequenceNumber |-> s]

NoStatus == [status |-> "None", code |-> "None", message |-> "None", version |-> NoVersion]

HStatus(st, code, msg, v) == [status |-> st, code |-> code, message |-> msg, version |-> v]

\* a Name-Version directory that does not exist
AbsentDir ==
    [ base      |-> FALSE,           \* <lib>/Name-Version/
      conf      |-> FALSE,           \* config/
      statusDir |-> FALSE,           \* status/
      pkgfiles  |-> FALSE,           \* the unzipped package
      manifest  |-> FALSE,           \* HandlerManifest.json saved by initialize
      envfile   |-> FALSE,           \* HandlerEnvironment.json
      man       |-> DefaultManifest, \* content of the manifest
      state     |-> NoStateFile,     \* config/HandlerState
      hstatus   |-> NoStatus,        \* config/HandlerStatus
      settings  |-> {},              \* config/<seq>.settings
      status    |-> [s \in StatusSeqs |-> Missing],  \* status/<seq>.status
      zips      |-> {} ]             \* the package zips beside the directory

\* the directory of d removed, its package zips left
NoDir(d) == [AbsentDir EXCEPT !.zips = d.zips]

\* ------------------------------------------------------------------------
\* decide_version
\* ------------------------------------------------------------------------

\* pkg_list.versions.sort(key=lambda p: FlexibleVersion(p.version)): a stable
\* ascending sort, as positions of the sorted list
RECURSIVE InsertPkg(_, _)
InsertPkg(sorted, p) ==
    IF sorted = <<>> THEN <<p>>
    ELSE IF VersionLT(p.version, sorted[Len(sorted)].version)
         THEN Append(InsertPkg(SubSeq(sorted, 1, Len(sorted) - 1), p), sorted[Len(sorted)])
         ELSE Append(sorted, p)

RECURSIVE SortPkgs(_)
SortPkgs(pkgs) ==
    IF pkgs = <<>> THEN <<>>
    ELSE InsertPkg(SortPkgs(SubSeq(pkgs, 1, Len(pkgs) - 1)), pkgs[Len(pkgs)])

\* the loop of decide_version keeps the last package that passes the test
LastPkg(pkgs, Test(_)) ==
    LET I == {i \in 1..Len(pkgs) : Test(pkgs[i])}
    IN  IF I = {} THEN NoPkg ELSE pkgs[Max(I)]

\* the scan of decide_version over the unsorted list (the sort left out)
SelectPkgUnsorted(pkg_list, requested_version) ==
    LastPkg(pkg_list, LAMBDA p : Matches(requested_version, p.version))

\* selected_pkg: the last package of the sorted list the requested version matches
SelectPkg(pkg_list, requested_version) ==
    LastPkg(SortPkgs(pkg_list), LAMBDA p : Matches(requested_version, p.version))

\* installed_pkg: the package whose version is the installed version
InstalledPkg(pkg_list, installed_version) ==
    LastPkg(SortPkgs(pkg_list), LAMBDA p : VersionEq(p.version, installed_version))

\* the upgrade test with the comparison of the two packages left out
IsUpgradeNoInstalledOnly(pkg, installed_pkg) == installed_pkg = NoPkg

\* the test that sets self.is_upgrade, pkg being self.pkg
IsUpgrade(pkg, installed_pkg) ==
    \/ installed_pkg = NoPkg
    \/ (pkg # NoPkg /\ ~VersionEq(pkg.version, installed_pkg.version))

\* decide_version(target_state) of a handler whose requested version is
\* requested_version, with get_installed_version() = installed_version_string
\* (NoVersion for None).  Returns self.pkg, the version written back to
\* ext_handler.properties.version, and self.is_upgrade.
decide_version(pkg_list, requested_version, installed_version_string, target_state) ==
    LET installed_version ==
            IF installed_version_string = NoVersion
            THEN requested_version ELSE installed_version_string
        selected_pkg == SelectPkg(pkg_list, requested_version)
        installed_pkg == InstalledPkg(pkg_list, installed_version)
        back == target_state \in {"uninstall", "disabled"}
        pkg == IF back THEN installed_pkg ELSE selected_pkg
    IN  [ pkg |-> pkg,
          version |-> IF back THEN installed_version
                      ELSE IF pkg # NoPkg THEN selected_pkg.version
                      ELSE requested_version,
          installed_pkg |-> installed_pkg,
          is_upgrade |-> IsUpgrade(pkg, installed_pkg) ]

\* ------------------------------------------------------------------------
\* State
\* ------------------------------------------------------------------------

VARIABLES
    disk,          \* the library directory: [<<Name, Version>> -> directory]
    repo,          \* the publisher's packages: [Name -> list of packages]
    feed,          \* the goal states the control plane publishes, in order
    incarnation,   \* the goal state now served by the protocol (its etag)
    procEnv,       \* os.environ: the names the agent's own environment defines
    conf,          \* configuration and protocol capabilities
    pc,            \* where run() stands: idle, handle, report, cleanup
    passes,        \* number of run() calls started
    ext_handlers,  \* self.ext_handlers.extHandlers of this pass
    etag,          \* etag of this pass
    idx,           \* position of the loop of handle_ext_handlers
    last_etag,     \* self.last_etag (0 for None)
    timedOut,      \* utcnow() > wait_until
    allowed,       \* extension_processing_allowed() of this pass
    log,           \* what this pass did, in order
    cur,           \* the goal state this pass fetched
    prev,          \* the goal state the pass before fetched
    vm_status,     \* vm_status.vmAgent.extensionHandlers of the last report
    dv,            \* a run of decide_version on its own: input and result
    iv,            \* a run of get_installed_version on its own: listing and result
    dl,            \* a run of download() on its own, step by step
    get_artifact_error_state,   \* self.get_artifact_error_state: failures counted
    report_status_error_state,  \* self.report_status_error_state: failures counted
    info_file,     \* <lib>/waagent_status.json
    cs             \* a run of collect_ext_status on its own: document and result

vars == <<disk, repo, feed, incarnation, procEnv, conf, pc, passes, ext_handlers,
          etag, idx, last_etag, timedOut, allowed, log, cur, prev, vm_status, dv, iv, dl,
          get_artifact_error_state, report_status_error_state, info_file, cs>>

Names == {"A", "B"}

V1 == <<1>>
V10 == <<1, 0>>
V11 == <<1, 1>>

DirVersions == {V10, V11}

DirKeys == {<<n, v>> : n \in Names, v \in DirVersions}

EmptyDisk == [k \in DirKeys |-> AbsentDir]

\* names of the variables launch_command and the phases put in the child's
\* environment
EnvVars == {"VERSION", "AZURE_GUEST_AGENT_DISABLE_FAILED", "AZURE_GUEST_AGENT_UNINSTALL_FAILED",
            "AZURE_GUEST_AGENT_EXTENSION_PATH", "AZURE_GUEST_AGENT_EXTENSION_VERSION"}

\* ------------------------------------------------------------------------
\* The state a call of handle_ext_handler works on
\* ------------------------------------------------------------------------

AGENT_NAME == "WALinuxAgent"

\* ErrorState(): no failure counted
ErrorState == 0

\* ErrorState.incr()
incr(count) == count + 1

\* ErrorState.is_triggered(): failures are counted and the time since the
\* first of them has reached min_timedelta; how much time has passed is not
\* known here
is_triggered(count) == IF count = 0 THEN {FALSE} ELSE {FALSE, TRUE}

\* m.exc is the exception in flight ("none" when there is none); m.op and
\* m.oldop are self.operation of the goal-state handler instance and of the
\* installed (old) handler instance; m.hv is ext_handler.properties.version;
\* m.gate is self.get_artifact_error_state.
Machine(dk, lg, v, gate) ==
    [ disk |-> dk, log |-> lg, exc |-> "none", code |-> "0", op |-> "None",
      oldop |-> "None", hv |-> v, ret |-> TRUE,
      disable_failed |-> FALSE, uninstall_failed |-> FALSE, gate |-> gate ]

\* sequencing: F runs on every outcome of S that raised nothing
Then(S, F(_)) == UNION { IF s.exc = "none" THEN F(s) ELSE {s} : s \in S }

Raise(m, kind, code) == [m EXCEPT !.exc = kind, !.code = code]

Emit(m, e) == [m EXCEPT !.log = Append(@, e)]

Dir(dk, n, v) == IF <<n, v>> \in DOMAIN dk THEN dk[<<n, v>>] ELSE AbsentDir

SetOp(m, who, op) == IF who = "new" THEN [m EXCEPT !.op = op] ELSE [m EXCEPT !.oldop = op]

GetOp(m, who) == IF who = "new" THEN m.op ELSE m.oldop

\* ------------------------------------------------------------------------
\* ExtHandlerInstance: persisted state and status
\* ------------------------------------------------------------------------

get_handler_state(d) ==
    IF d.state = NoStateFile THEN NotInstalled ELSE d.state

\* the write of config/HandlerState, recorded with the state it replaces
set_handler_state(m, n, v, handler_state) ==
    Emit([m EXCEPT !.disk[<<n, v>>].base = TRUE,
                   !.disk[<<n, v>>].conf = TRUE,
                   !.disk[<<n, v>>].state = handler_state],
         [k |-> "state", name |-> n, dir |-> v,
          from |-> get_handler_state(Dir(m.disk, n, v)), to |-> handler_state])

\* the write of config/HandlerStatus fails (and is only logged) when the
\* config directory does not exist
set_handler_status(m, n, v, status, message, code) ==
    IF Dir(m.disk, n, v).conf
    THEN [m EXCEPT !.disk[<<n, v>>].hstatus = HStatus(status, code, message, v)]
    ELSE m

report_event(m, n, v, op, is_success) ==
    Emit(m, [k |-> "event", name |-> n, version |-> v, op |-> op, ok |-> is_success])

\* one entry of the library directory: the item Name-Version, a directory or a
\* file, and the content of its config/HandlerState (NoStateFile when missing)
LibEntry(n, v, isdir, st) == [name |-> n, version |-> v, isdir |-> isdir, state |-> st]

\* glob.iglob(<lib>/Name-*), the listing in the order the directory gives; a
\* handler name holds no '-' (HANDLER_PATTERN)
GlobPaths(paths, n) == SelectSeq(paths, LAMBDA e : e.name = n)

\* the entries the loop of get_installed_version passes over
Ignored(e) == ~e.isdir \/ e.state \in {NoStateFile, NotInstalled}

\* every listed version replacing the one kept
NewerAlways(lastest_version, version_from_path) == TRUE

\* lastest_version is None or lastest_version < version_from_path
Newer(lastest_version, version_from_path) ==
    lastest_version = NoVersion \/ VersionLT(lastest_version, version_from_path)

\* the loop of get_installed_version over the globbed paths
RECURSIVE LatestOver(_, _)
LatestOver(paths, lastest_version) ==
    IF paths = <<>> THEN lastest_version
    ELSE LET e == Head(paths)
         IN  IF Ignored(e) THEN LatestOver(Tail(paths), lastest_version)
             ELSE IF Newer(lastest_version, e.version)
                  THEN LatestOver(Tail(paths), e.version)
                  ELSE LatestOver(Tail(paths), lastest_version)

\* get_installed_version() on a listing of the library directory
get_installed_version_listed(paths, n) == LatestOver(GlobPaths(paths, n), NoVersion)

\* os.listdir order of the Name-Version items of the library directory
DirOrder == CHOOSE f \in [1..Cardinality(DirKeys) -> DirKeys] :
                \A i, j \in DOMAIN f : i # j => f[i] # f[j]

\* the library directory as it is listed, a missing directory not being one
LibListing(dk) ==
    [i \in DOMAIN DirOrder |->
        LibEntry(DirOrder[i][1], DirOrder[i][2], dk[DirOrder[i]].base, dk[DirOrder[i]].state)]

get_installed_version(dk, n) == get_installed_version_listed(LibListing(dk), n)

get_largest_seq_no(d) ==
    IF d.settings = {} THEN -1 ELSE Max(d.settings)

\* get_status_file_path(extension)[0]; the caller has checked that config/ exists
StatusSeqNo(d, ext) ==
    IF ext.sequenceNumber # NoSeq THEN ext.sequenceNumber ELSE get_largest_seq_no(d)

\* ------------------------------------------------------------------------
\* ExtHandlerInstance: commands
\* ------------------------------------------------------------------------

\* the env argument a phase hands to launch_command
PhaseEnv(names, version) == [defined |-> names, version |-> version]

\* The environment of the child: env.update(os.environ) puts the agent's own
\* value on every name the agent's environment defines, then the extension
\* path and version are set.  "inherited" are the names whose value is the
\* agent's own, "phase" the names the phase put in env.
LaunchEnv(phase, n, v) ==
    [ phase     |-> phase.defined,
      defined   |-> phase.defined \cup procEnv
                      \cup {"AZURE_GUEST_AGENT_EXTENSION_PATH", "AZURE_GUEST_AGENT_EXTENSION_VERSION"},
      inherited |-> procEnv \ {"AZURE_GUEST_AGENT_EXTENSION_PATH", "AZURE_GUEST_AGENT_EXTENSION_VERSION"},
      version   |-> phase.version,
      path      |-> <<n, v>>,
      extversion |-> v ]

CmdEvent(n, v, cmd, phase, ok) ==
    [k |-> "cmd", name |-> n, dir |-> v, cmd |-> cmd, env |-> LaunchEnv(phase, n, v), ok |-> ok]

\* launch_command in the base directory of Name-v: the command succeeds (its
\* duration is reported) or the execution subsystem raises an extension error
launch_command(m, n, v, who, cmd, phase, extension_error_code) ==
    IF ~Dir(m.disk, n, v).base
    THEN {Raise(m, "Exception", "-1")}
    ELSE { report_event(Emit(m, CmdEvent(n, v, cmd, phase, TRUE)), n, v, GetOp(m, who), TRUE),
           Raise(Emit(m, CmdEvent(n, v, cmd, phase, FALSE)), "ExtensionError", extension_error_code) }

load_manifest_fails(m, n, v) == ~Dir(m.disk, n, v).manifest

ManifestError(m) == Raise(m, "ExtensionError", "PluginHandlerManifestNotFound")

FailedEnv(flag, name) == PhaseEnv(IF flag THEN {name} ELSE {}, NoVersion)

\* enable that runs the command and leaves HandlerState and HandlerStatus alone
enableNoState(m, n, v, uninstall_failed) ==
    launch_command(SetOp(m, "new", "Enable"), n, v, "new", "enable",
                   FailedEnv(uninstall_failed, "AZURE_GUEST_AGENT_UNINSTALL_FAILED"),
                   "PluginEnableProcessingFailed")

enable(m, n, v, uninstall_failed) ==
    LET m1 == SetOp(m, "new", "Enable")
    IN  IF load_manifest_fails(m1, n, v) THEN {ManifestError(m1)}
        ELSE Then(launch_command(m1, n, v, "new", "enable",
                                 FailedEnv(uninstall_failed, "AZURE_GUEST_AGENT_UNINSTALL_FAILED"),
                                 "PluginEnableProcessingFailed"),
                  LAMBDA x : {set_handler_status(set_handler_state(x, n, v, Enabled),
                                                 n, v, "Ready", "Plugin enabled", "0")})

disable(m, n, v, who) ==
    LET m1 == SetOp(m, who, "Disable")
    IN  IF load_manifest_fails(m1, n, v) THEN {ManifestError(m1)}
        ELSE Then(launch_command(m1, n, v, who, "disable", PhaseEnv({}, NoVersion),
                                 "PluginDisableProcessingFailed"),
                  LAMBDA x : {set_handler_status(set_handler_state(x, n, v, Installed),
                                                 n, v, "NotReady", "Plugin disabled", "0")})

install(m, n, v, uninstall_failed) ==
    IF load_manifest_fails(m, n, v) THEN {ManifestError(m)}
    ELSE Then(launch_command(SetOp(m, "new", "Install"), n, v, "new", "install",
                             FailedEnv(uninstall_failed, "AZURE_GUEST_AGENT_UNINSTALL_FAILED"),
                             "PluginInstallProcessingFailed"),
              LAMBDA x : {set_handler_state(x, n, v, Installed)})

uninstall(m, n, v, who) ==
    LET m1 == SetOp(m, who, "UnInstall")
    IN  IF load_manifest_fails(m1, n, v) THEN {ManifestError(m1)}
        ELSE launch_command(m1, n, v, who, "uninstall", PhaseEnv({}, NoVersion),
                            "PluginProcessingError")

\* remove_ext_handler: Name__Version.zip is removed if it exists, then
\* shutil.rmtree of the base directory
remove_ext_handler(m, n, v) ==
    IF <<n, v>> \notin DOMAIN m.disk THEN m
    ELSE LET m1 == [m EXCEPT !.disk[<<n, v>>].zips = @ \ {UnderZip}]
         IN  IF m1.disk[<<n, v>>].base
             THEN Emit([m1 EXCEPT !.disk[<<n, v>>] = NoDir(@)],
                       [k |-> "rmdir", name |-> n, dir |-> v])
             ELSE m1

\* update: the VERSION the command gets is version, or the instance's own
\* version when none is given (NoVersion); a failure writes HandlerState=Failed
update(m, n, v, who, version, disable_failed) ==
    LET env == PhaseEnv({"VERSION"} \cup (IF disable_failed
                                          THEN {"AZURE_GUEST_AGENT_DISABLE_FAILED"} ELSE {}),
                        IF version = NoVersion THEN v ELSE version)
        m1 == SetOp(m, who, "Update")
        R == IF load_manifest_fails(m1, n, v) THEN {ManifestError(m1)}
             ELSE launch_command(m1, n, v, who, "update", env, "PluginUpdateProcessingFailed")
    IN  { IF r.exc = "ExtensionError" THEN set_handler_state(r, n, v, Failed) ELSE r : r \in R }

update_with_install(m, n, v, uninstall_failed) ==
    IF load_manifest_fails(m, n, v) THEN {ManifestError(m)}
    ELSE Then(IF Dir(m.disk, n, v).man.updateWithInstall
              THEN install(m, n, v, uninstall_failed) ELSE {m},
              LAMBDA x : {set_handler_state(x, n, v, Installed)})

\* copy_status_files: every status/<seq>.status of the old version is copied
\* into the status directory of the new one
copy_status_files(m, n, v, old_v) ==
    LET old == Dir(m.disk, n, old_v)
    IN  Emit([m EXCEPT !.disk[<<n, v>>].status =
                 [s \in StatusSeqs |-> IF old.statusDir /\ old.status[s] # Missing
                                       THEN old.status[s] ELSE @[s]]],
             [k |-> "copy", name |-> n, from |-> old_v, dir |-> v])

\* ------------------------------------------------------------------------
\* ExtHandlerInstance: download, initialize, settings
\* ------------------------------------------------------------------------

NUMBER_OF_DOWNLOAD_RETRIES == 5

\* download() before its first step: the destination zip and the base
\* directory, the round counter i, the URIs left in the round, and what has
\* been tried
NoDownload ==
    [ pc |-> "idle", nuris |-> 0, i |-> 0, rest |-> <<>>, zip |-> FALSE, base |-> FALSE,
      unpacked |-> FALSE, downloaded |-> FALSE, package_exists |-> FALSE,
      exc |-> "none", code |-> "0", tried |-> {}, attempts |-> 0, last |-> "none" ]

\* random.shuffle of the URIs 1..n
Shuffles(n) == {f \in [1..n -> 1..n] : \A i, j \in 1..n : i # j => f[i] # f[j]}

\* a while test that lets one round more through
MoreRoundsOneMore(i) == i <= NUMBER_OF_DOWNLOAD_RETRIES

\* while i < NUMBER_OF_DOWNLOAD_RETRIES
MoreRounds(i) == i < NUMBER_OF_DOWNLOAD_RETRIES

\* a download that leaves what it wrote of the destination when it fails
download_extension_packageKeeps(d, ok, partial) ==
    IF ok THEN [d EXCEPT !.zip = TRUE, !.last = "downloaded"]
    ELSE [d EXCEPT !.zip = @ \/ partial, !.last = "download_failed"]

\* _download_extension_package: the destination is written, in part when the
\* download fails, and then removed if it exists
download_extension_package(d, ok, partial) ==
    IF ok THEN [d EXCEPT !.zip = TRUE, !.last = "downloaded"]
    ELSE [d EXCEPT !.zip = FALSE, !.last = "download_failed"]

\* _unzip_extension_package: the zip is extracted into the base directory; on
\* failure the zip is removed, and the base directory if it exists
unzip_extension_package(d, ok) ==
    IF ok THEN [d EXCEPT !.base = TRUE, !.unpacked = TRUE, !.last = "unzipped"]
    ELSE [d EXCEPT !.zip = FALSE, !.base = FALSE, !.unpacked = FALSE, !.last = "unzip_failed"]

\* what _unzip_extension_package leaves after a failed unzip: the base
\* directory is removed as a whole
Wiped(m, n, v) == [m EXCEPT !.disk[<<n, v>>] = NoDir(@)]

Unzipped(m, n, v, pkg) ==
    [m EXCEPT !.disk[<<n, v>>].base = TRUE,
              !.disk[<<n, v>>].pkgfiles = TRUE,
              !.disk[<<n, v>>].man = pkg.man]

\* download() as a whole: a destination zip that is there is unzipped, and
\* removed with the directory when that fails; the rounds then leave the zip
\* and the package unzipped into the base directory, at once or after an unzip
\* that failed and removed the directory; or every round fails and no zip is
\* left, the directory untouched (downloads failed) or removed (an unzip
\* failed)
download(m, n, v, pkg) ==
    LET m1 == Emit(SetOp(m, "new", "Download"), [k |-> "download", name |-> n, dir |-> v])
        Zip(x, there) == [x EXCEPT !.disk[<<n, v>>].zips =
                                       IF there THEN @ \cup {pkg.zip} ELSE @ \ {pkg.zip}]
        Rounds(x) ==
            { report_event(Zip(Unzipped(x, n, v, pkg), TRUE), n, v, "Download", TRUE),
              report_event(Zip(Unzipped(Wiped(x, n, v), n, v, pkg), TRUE), n, v, "Download", TRUE),
              Raise(Zip(x, FALSE), "ExtensionDownloadError", "PluginManifestDownloadError"),
              Raise(Zip(Wiped(x, n, v), FALSE), "ExtensionDownloadError",
                    "PluginManifestDownloadError") }
    IN  IF pkg = NoPkg \/ pkg.uris = 0
        THEN {Raise(SetOp(m, "new", "Download"), "ExtensionDownloadError", "-1")}
        ELSE IF pkg.zip \in Dir(m1.disk, n, v).zips
             THEN {Unzipped(m1, n, v, pkg)} \cup Rounds(Zip(Wiped(m1, n, v), FALSE))
             ELSE Rounds(m1)

\* initialize() without the last step, HandlerEnvironment.json never saved
initializeNoEnv(m, n, v, pkg_file) ==
    { Emit([m EXCEPT !.disk[<<n, v>>].manifest = TRUE,
                     !.disk[<<n, v>>].statusDir = TRUE,
                     !.disk[<<n, v>>].conf = TRUE],
           [k |-> "init", name |-> n, dir |-> v, ok |-> TRUE]) }

\* initialize(): saves HandlerManifest.json, creates status/ and config/,
\* writes a transitioning status for the largest sequence number on disk and
\* saves HandlerEnvironment.json.  It fails when the package holds no manifest
\* or a write fails (clean_ioerror may then remove the base directory, and
\* the package zip with it; the write of HandlerEnvironment.json is the last
\* one and may fail alone), and
\* when config/ does not exist at get_status_file_path: os.listdir raises
\* OSError, which is the IOError handled there on Python 3 and escapes as a
\* plain exception on Python 2.
initialize(m, n, v, pkg_file) ==
    LET d == Dir(m.disk, n, v)
        seq == get_largest_seq_no(d)
        saved == [m EXCEPT !.disk[<<n, v>>].manifest = TRUE,
                           !.disk[<<n, v>>].statusDir = TRUE]
        done == [saved EXCEPT !.disk[<<n, v>>].status =
                                  [s \in StatusSeqs |-> IF s = seq THEN "transitioning" ELSE @[s]],
                              !.disk[<<n, v>>].conf = TRUE,
                              !.disk[<<n, v>>].envfile = TRUE]
    IN  { Emit(Raise(m, "ExtensionDownloadError", "-1"), [k |-> "init", name |-> n, dir |-> v, ok |-> FALSE]),
          Emit(Raise(Wiped(m, n, v), "ExtensionDownloadError", "-1"),
               [k |-> "init", name |-> n, dir |-> v, ok |-> FALSE]),
          Emit(Raise([Wiped(m, n, v) EXCEPT !.disk[<<n, v>>].zips = @ \ {pkg_file}],
                     "ExtensionDownloadError", "-1"),
               [k |-> "init", name |-> n, dir |-> v, ok |-> FALSE]) }
        \cup
        ( IF d.conf
          THEN { Emit(done, [k |-> "init", name |-> n, dir |-> v, ok |-> TRUE]),
                 Emit(Raise([done EXCEPT !.disk[<<n, v>>].envfile = d.envfile],
                            "ExtensionDownloadError", "-1"),
                      [k |-> "init", name |-> n, dir |-> v, ok |-> FALSE]) }
          ELSE { Emit(Raise(saved, kind, "-1"), [k |-> "init", name |-> n, dir |-> v, ok |-> FALSE])
                 : kind \in {"ExtensionDownloadError", "Exception"} } )

\* a failed write of the settings that raises nothing
update_settingsSwallowed(m, n, v, extensions) ==
    IF ~Dir(m.disk, n, v).conf THEN {Raise(m, "ExtensionError", "-1")}
    ELSE {Emit(m, [k |-> "settings", name |-> n, dir |-> v, ok |-> FALSE])}

\* update_settings(): one <seq>.settings per extension, 0.settings when the
\* handler has no extension; a failed write raises an extension error
update_settings(m, n, v, extensions) ==
    LET written == IF extensions = <<>> THEN {0}
                   ELSE {extensions[i].sequenceNumber : i \in 1..Len(extensions)} \ {NoSeq}
        failed == Emit(Raise(m, "ExtensionError", "-1"),
                       [k |-> "settings", name |-> n, dir |-> v, ok |-> FALSE])
    IN  IF ~Dir(m.disk, n, v).conf THEN {failed}
        ELSE { [m EXCEPT !.disk[<<n, v>>].settings = @ \cup written], failed }

\* ------------------------------------------------------------------------
\* ExtHandlersHandler: enable, update, disable, uninstall
\* ------------------------------------------------------------------------

\* execute_old_handler_command_and_return_if_succeeds, R being the outcomes
\* of the command of the old handler run from m: an extension error (of the
\* command, or of loading the new manifest before it) is reported by the old
\* handler and, unless the new manifest says continueOnUpdateFailure, is
\* raised again as an ExtensionUpdateError.  m.ret is the value returned.
execute_old_handler_command_and_return_if_succeeds(m, R, n, v, old_v) ==
    IF load_manifest_fails(m, n, v)
    THEN {Raise(report_event(m, n, old_v, m.oldop, FALSE), "ExtensionUpdateError", "-1")}
    ELSE { IF r.exc \in {"ExtensionError", "ExtensionDownloadError", "ExtensionUpdateError"}
           THEN LET reported == report_event([r EXCEPT !.exc = "none", !.code = "0"],
                                             n, old_v, r.oldop, FALSE)
                IN  IF Dir(r.disk, n, v).man.continueOnUpdateFailure
                    THEN [reported EXCEPT !.ret = FALSE]
                    ELSE Raise(reported, "ExtensionUpdateError", "-1")
           ELSE [r EXCEPT !.ret = TRUE]
           : r \in R }

\* the update command runs in the directory of the new version when the new
\* version is greater than the old one and in the directory of the old
\* version otherwise, always with VERSION = the new version
RunUpdate(m, n, v, old_v) ==
    IF VersionGT(v, old_v)
    THEN update(m, n, v, "new", NoVersion, m.disable_failed)
    ELSE update(m, n, old_v, "old", v, m.disable_failed)

\* _update_extension_handler_and_return_if_failed(old_ext_handler_i, ext_handler_i)
update_extension_handler(m, n, v, old_v) ==
    LET S1 == execute_old_handler_command_and_return_if_succeeds(
                  m, disable(m, n, old_v, "old"), n, v, old_v)
        S2 == Then(S1, LAMBDA x :
                  {copy_status_files([x EXCEPT !.disable_failed = ~x.ret], n, v, old_v)})
        S3 == Then(S2, LAMBDA x : RunUpdate(x, n, v, old_v))
        S4 == Then(S3, LAMBDA x :
                  execute_old_handler_command_and_return_if_succeeds(
                      x, uninstall(x, n, old_v, "old"), n, v, old_v))
        S5 == Then(S4, LAMBDA x :
                  {remove_ext_handler([x EXCEPT !.uninstall_failed = ~x.ret], n, old_v)})
    IN  Then(S5, LAMBDA x : update_with_install(x, n, v, x.uninstall_failed))

\* handle_enable(ext_handler_i) for the handler Name-v with package pkg
handle_enable(m, n, v, extensions, pkg) ==
    LET old_v == get_installed_version(m.disk, n)
        handler_state == get_handler_state(Dir(m.disk, n, v))
        S1 == Then({set_handler_state(m, n, v, NotInstalled)},
                   LAMBDA x : download(x, n, v, pkg))
        S2 == Then(S1, LAMBDA x : initialize(x, n, v, pkg.zip))
        S3 == Then(S2, LAMBDA x : update_settings(x, n, v, extensions))
        S4 == Then(S3, LAMBDA x :
                  IF old_v = NoVersion THEN install(x, n, v, FALSE)
                  ELSE IF ~VersionEq(v, old_v) THEN update_extension_handler(x, n, v, old_v)
                  ELSE {x})
        S == IF handler_state = NotInstalled THEN S4
             ELSE update_settings(m, n, v, extensions)
    IN  Then(S, LAMBDA x : enable(x, n, v, x.uninstall_failed))

\* handle_disable running the command whatever the handler state
handle_disableAlways(m, n, v) == disable(m, n, v, "new")

handle_disable(m, n, v) ==
    IF get_handler_state(Dir(m.disk, n, v)) = Enabled
    THEN disable(m, n, v, "new") ELSE {m}

\* handle_uninstall: an error of the uninstall command is reported and
\* swallowed; an error of the disable command is not
handle_uninstall(m, n, v) ==
    LET handler_state == get_handler_state(Dir(m.disk, n, v))
        S1 == IF handler_state = Enabled THEN disable(m, n, v, "new") ELSE {m}
        S2 == Then(S1, LAMBDA x :
                  { IF r.exc \in {"ExtensionError", "ExtensionDownloadError", "ExtensionUpdateError"}
                    THEN report_event([r EXCEPT !.exc = "none", !.code = "0"], n, v, r.op, FALSE)
                    ELSE r
                    : r \in uninstall(x, n, v, "new") })
    IN  IF handler_state # NotInstalled
        THEN Then(S2, LAMBDA x : {remove_ext_handler(x, n, v)})
        ELSE {remove_ext_handler(m, n, v)}

\* handle_ext_handler_error / handle_ext_handler_download_error: the error is
\* written to the handler status of the goal-state handler
handle_ext_handler_error(m, n, code, report_telemetry_event) ==
    LET m1 == set_handler_status([m EXCEPT !.exc = "none", !.code = "0"],
                                 n, m.hv, "NotReady", m.exc, code)
    IN  IF report_telemetry_event THEN report_event(m1, n, m.hv, m.op, FALSE) ELSE m1

\* the event of a download failure that lasts
DownloadExtendedEvent ==
    [k |-> "event", name |-> AGENT_NAME, version |-> NoVersion,
     op |-> "DownloadExtended", ok |-> FALSE]

\* incr() and is_triggered() at once, count failures being counted before:
\* the first failure counted is min_timedelta old only when it was counted
\* before this one
IncrIsTriggered(count) == is_triggered(count)

\* handle_ext_handler_download_error: the failure is counted in
\* get_artifact_error_state; a triggered gate emits the event and is reset
handle_ext_handler_download_error(m, n, code) ==
    LET m1 == Emit(set_handler_status([m EXCEPT !.exc = "none", !.code = "0"],
                                      n, m.hv, "NotReady", m.exc, code),
                   [k |-> "download_error", name |-> n])
    IN  { IF triggered
          THEN [Emit(m1, DownloadExtendedEvent) EXCEPT !.gate = ErrorState]
          ELSE [m1 EXCEPT !.gate = incr(m.gate)]
          : triggered \in IncrIsTriggered(m.gate) }

\* every error reported to telemetry by the goal-state handler
CatchAlwaysReports(r, n) ==
    IF r.exc = "none" THEN {r} ELSE {handle_ext_handler_error(r, n, r.code, TRUE)}

Catch(r, n) ==
    CASE r.exc = "none" -> {r}
      [] r.exc = "ExtensionUpdateError" -> {handle_ext_handler_error(r, n, r.code, FALSE)}
      [] r.exc = "ExtensionError" -> {handle_ext_handler_error(r, n, r.code, TRUE)}
      [] r.exc = "ExtensionDownloadError" -> handle_ext_handler_download_error(r, n, r.code)
      [] OTHER -> {handle_ext_handler_error(r, n, "-1", TRUE)}

\* a handler never taken as already processed
AlreadyProcessedNever(is_upgrade, lastEtag, etag_) == FALSE

\* whether handle_ext_handler returns before dispatching on the target state
AlreadyProcessed(is_upgrade, lastEtag, etag_) == ~is_upgrade /\ lastEtag = etag_

\* the body of the try of handle_ext_handler once the package list is there;
\* a version found resets get_artifact_error_state
Dispatch(m, h, etag_, lastEtag) ==
    LET n == h.name
        d == decide_version(repo[n], h.version, get_installed_version(m.disk, n), h.state)
        v == d.version
        m1 == Emit([m EXCEPT !.hv = v],
                   [k |-> "decide", name |-> n, version |-> v, found |-> d.pkg # NoPkg,
                    installed |-> get_installed_version(m.disk, n),
                    is_upgrade |-> d.is_upgrade,
                    failed |-> {w \in DirVersions : Dir(m.disk, n, w).state = Failed}])
    IN  IF d.pkg = NoPkg
        THEN {report_event(set_handler_status(SetOp(m1, "new", "Download"), n, v, "NotReady",
                                              "Unable to find version", "-1"),
                           n, v, "Download", FALSE)}
        ELSE IF AlreadyProcessed(d.is_upgrade, lastEtag, etag_)
        THEN {[m1 EXCEPT !.gate = ErrorState]}
        ELSE LET m2 == Emit([m1 EXCEPT !.gate = ErrorState],
                            [k |-> "target", name |-> n, version |-> v, state |-> h.state,
                             before |-> [state |-> Dir(m1.disk, n, v).state,
                                         hstatus |-> Dir(m1.disk, n, v).hstatus]])
             IN  CASE h.state = "enabled" -> handle_enable(m2, n, v, h.extensions, d.pkg)
                   [] h.state = "disabled" -> handle_disable(m2, n, v)
                   [] h.state = "uninstall" -> handle_uninstall(m2, n, v)
                   [] OTHER -> {Raise(m2, "ExtensionError", "-1")}

\* handle_ext_handler(ext_handler, etag): get_ext_handler_pkgs fails with a
\* protocol error or a download error, or the handler is dispatched; every
\* error is caught and written to the handler status
handle_ext_handler(m, h, etag_, lastEtag) ==
    LET m0 == Emit(m, [k |-> "handle", name |-> h.name, sortKey |-> h.sortKey])
        R == { Raise(m0, "ExtensionError", "-1"),
               Raise(SetOp(m0, "new", "Download"), "ExtensionDownloadError", "-1") }
             \cup Dispatch(m0, h, etag_, lastEtag)
    IN  UNION { Catch(r, h.name) : r \in R }

\* ------------------------------------------------------------------------
\* The status document of an extension
\* ------------------------------------------------------------------------

\* a key a JSON object does not have
Absent == "absent"

VALID_EXTENSION_STATUS == {"transitioning", "error", "success", "warning"}

\* parse_formatted_message(formatted_message): an object without lang (or
\* message) is an ExtensionError
parse_formatted_message(formatted_message) ==
    IF formatted_message = "no_lang" THEN "ExtensionError" ELSE "none"

\* parse_ext_substatus(substatus): the key status must be there and valid
parse_ext_substatus(substatus) ==
    IF substatus.status = Absent \/ substatus.status \notin VALID_EXTENSION_STATUS
    THEN "ExtensionError"
    ELSE "none"

\* parse_ext_status(ext_status, data) on the JSON list data: what it raises,
\* and the status and code it leaves in ext_status.  data[0] of an empty list
\* is an IndexError; a status outside the valid ones becomes error.
parse_ext_status(data) ==
    IF Len(data) = 0 THEN [exc |-> "IndexError", status |-> "none", code |-> "none"]
    ELSE LET status_data == data[1].status
             Raised == [exc |-> "ExtensionError", status |-> "none", code |-> "none"]
         IN  IF ~data[1].has_status THEN Raised
             ELSE IF status_data.status = Absent THEN Raised
             ELSE IF parse_formatted_message(status_data.formattedMessage) # "none" THEN Raised
             ELSE IF \E i \in DOMAIN status_data.substatus :
                        parse_ext_substatus(status_data.substatus[i]) # "none"
             THEN Raised
             ELSE [exc |-> "none",
                   status |-> IF status_data.status \in VALID_EXTENSION_STATUS
                              THEN status_data.status ELSE "error",
                   code |-> IF status_data.code = Absent THEN "0" ELSE status_data.code]

\* collect_ext_status(ext) given the sequence number and the status file: None,
\* an extension status, or the error that leaves the function
collect_ext_status(seq_no, doc) ==
    IF seq_no = -1 THEN [kind |-> "None", status |-> "none", code |-> "none"]
    ELSE IF doc.file \in {"unreadable", "not_json"}
    THEN [kind |-> "status", status |-> "error", code |-> "-1"]
    ELSE LET parsed == parse_ext_status(doc.data)
         IN  CASE parsed.exc = "ExtensionError" ->
                    [kind |-> "status", status |-> "error",
                     code |-> "PluginSettingsStatusInvalid"]
               [] parsed.exc = "IndexError" ->
                    [kind |-> "IndexError", status |-> "none", code |-> "none"]
               [] OTHER -> [kind |-> "status", status |-> parsed.status, code |-> parsed.code]

\* ------------------------------------------------------------------------
\* The dependency wait
\* ------------------------------------------------------------------------

\* get_ext_handling_status(ext) on a handler directory whose config/ exists
get_ext_handling_status(d, ext) ==
    LET seq_no == StatusSeqNo(d, ext)
    IN  IF seq_no < 0 THEN "None"
        ELSE IF d.status[seq_no] = Missing THEN "warning"
        ELSE d.status[seq_no]

\* is_ext_handling_complete(ext)[0]
is_ext_handling_complete(status) ==
    status = "None" \/ status \in EXTENSION_TERMINAL_STATUSES

\* the test of the wait letting a null status pass
NotSucceededNullPasses(status) == status \notin {EXTENSION_STATUS_SUCCESS, "None"}

\* the test of the wait failing every status
NotSucceededEver(status) == TRUE

\* the test of the wait on the status reached: anything but success ends the
\* wait with False
NotSucceeded(status) == status # EXTENSION_STATUS_SUCCESS

WaitFailed(w, n) ==
    [w EXCEPT !.result = "false",
              !.log = Append(@, [k |-> "event", name |-> AGENT_NAME, version |-> NoVersion,
                                 op |-> "ExtensionProcessing", ok |-> FALSE])]

\* wait_for_handler_successful_completion over the extensions from position i
\* on.  While an extension is not complete and the deadline has not passed the
\* wait polls: the extension writes a terminal status, or the deadline passes.
\* The deadline may also have passed by the time a complete extension is looked
\* at.  os.listdir raises when config/ does not exist, before or after the
\* deadline.
RECURSIVE WaitExts(_, _, _, _, _)
WaitExts(w, n, v, extensions, i) ==
    IF i > Len(extensions) THEN {[w EXCEPT !.result = "true"]}
    ELSE LET d == Dir(w.disk, n, v)
             ext == extensions[i]
         IN  IF ~d.conf
             THEN {[w EXCEPT !.result = "raise"], [w EXCEPT !.result = "raise", !.timedOut = TRUE]}
             ELSE LET status0 == get_ext_handling_status(d, ext)
                      seq_no == StatusSeqNo(d, ext)
                      Polled ==
                          IF is_ext_handling_complete(status0) \/ w.timedOut
                          THEN {<<w, status0>>}
                          ELSE { <<[w EXCEPT !.disk[<<n, v>>].status[seq_no] = t], t>>
                                 : t \in EXTENSION_TERMINAL_STATUSES }
                               \cup {<<[w EXCEPT !.timedOut = TRUE], status0>>}
                  IN  UNION {
                        LET w1 == [p[1] EXCEPT !.log = Append(@,
                                       [k |-> "poll", name |-> n, ext |-> i, status |-> p[2]])]
                        IN  IF w1.timedOut THEN {WaitFailed(w1, n)}
                            ELSE {WaitFailed([w1 EXCEPT !.timedOut = TRUE], n)}
                                 \cup (IF NotSucceeded(p[2]) THEN {WaitFailed(w1, n)}
                                       ELSE WaitExts(w1, n, v, extensions, i + 1))
                        : p \in Polled }

wait_for_handler_successful_completion(dk, lg, late, h) ==
    WaitExts([disk |-> dk, log |-> lg, timedOut |-> late, result |-> "none"],
             h.name, h.version, h.extensions, 1)

\* the wait applied to every handler but those of the last level
GatedAlsoNegative(dep_level, max_dep_level) == dep_level < max_dep_level

\* the wait left out for level 0
GatedAboveZero(dep_level, max_dep_level) == dep_level > 0 /\ dep_level < max_dep_level

\* dep_level >= 0 and dep_level < max_dep_level
Gated(dep_level, max_dep_level) == dep_level >= 0 /\ dep_level < max_dep_level

\* ------------------------------------------------------------------------
\* run()
\* ------------------------------------------------------------------------

\* protocol.get_artifacts_profile() where extension_processing_allowed calls
\* it: no profile, a profile on hold, a profile not on hold
ArtifactsProfiles(c) ==
    IF c.extensions_enabled /\ c.enable_overprovisioning /\ c.supports_overprovisioning
    THEN {"none", "hold", "free"}
    ELSE {"unread"}

\* processing never gated off
extension_processing_allowedAlways(c, profile) == TRUE

extension_processing_allowed(c, profile) ==
    /\ c.extensions_enabled
    /\ ~(c.enable_overprovisioning /\ c.supports_overprovisioning /\ profile = "hold")

\* the list left in the order of the goal state
SortHandlersNot(hs) == hs

\* self.ext_handlers.extHandlers.sort(key=operator.methodcaller('sort_key')):
\* a stable ascending sort
RECURSIVE InsertHandler(_, _)
InsertHandler(sorted, h) ==
    IF sorted = <<>> THEN <<h>>
    ELSE IF h.sortKey < sorted[Len(sorted)].sortKey
         THEN Append(InsertHandler(SubSeq(sorted, 1, Len(sorted) - 1), h), sorted[Len(sorted)])
         ELSE Append(sorted, h)

RECURSIVE SortHandlersAscending(_)
SortHandlersAscending(hs) ==
    IF hs = <<>> THEN <<>>
    ELSE InsertHandler(SortHandlersAscending(SubSeq(hs, 1, Len(hs) - 1)), hs[Len(hs)])

SortHandlers(hs) == SortHandlersAscending(hs)

MaxDepLevel(hs) == Max({hs[i].sortKey : i \in 1..Len(hs)})

ProcessingEvent ==
    [k |-> "event", name |-> AGENT_NAME, version |-> NoVersion,
     op |-> "ExtensionProcessing", ok |-> FALSE]

\* the except clause of run() left silent
RunExceptSilent(lg) == lg

\* the except clause of run() around processing, reporting and sweeping: one
\* ExtensionProcessing event, and run() returns
RunExcept(lg) == Append(lg, ProcessingEvent)

\* the failure of the fetch not counted
GetExtHandlersFailedUncounted(count, triggered) ==
    [log |-> <<ProcessingEvent>>, count |-> count]

\* the except clause of run() around the fetch, the failures counted so far
\* being count and triggered what is_triggered() says after incr(): the
\* events emitted and the count left
GetExtHandlersFailed(count, triggered) ==
    IF triggered
    THEN [log |-> <<[ProcessingEvent EXCEPT !.op = "GetArtifactExtended"], ProcessingEvent>>,
          count |-> ErrorState]
    ELSE [log |-> <<ProcessingEvent>>, count |-> incr(count)]

\* cut: the position of the handler whose wait ended the loop, 0 when none did
PassRecord(ok, hs, e, last) ==
    [ok |-> ok, handlers |-> hs, etag |-> e, last_etag |-> last, end |-> "running", cut |-> 0]

\* run(), up to the loop of handle_ext_handlers: the goal state is fetched;
\* when the fetch fails the failure is counted, reported as lasting when the
\* count is triggered, and run() returns; else the count is reset, the handlers
\* are sorted and the loop starts, unless processing is not allowed or there is
\* no handler
RunFetch ==
    /\ pc = "idle"
    /\ passes < MaxPasses
    /\ passes' = passes + 1
    /\ prev' = cur
    /\ vm_status' = <<>>
    /\ \/ /\ cur' = [PassRecord(FALSE, <<>>, 0, last_etag) EXCEPT !.end = "fetch_failed"]
          /\ \E triggered \in is_triggered(incr(get_artifact_error_state)) :
               LET failed == GetExtHandlersFailed(get_artifact_error_state, triggered)
               IN  /\ log' = failed.log
                   /\ get_artifact_error_state' = failed.count
          /\ ext_handlers' = <<>>
          /\ etag' = 0
          /\ allowed' = FALSE
          /\ UNCHANGED <<pc, idx, last_etag, timedOut>>
       \/ \E profile \in ArtifactsProfiles(conf) :
            LET hs == feed[incarnation]
                ok == extension_processing_allowed(conf, profile)
            IN  /\ cur' = [profile |-> profile] @@ PassRecord(TRUE, hs, incarnation, last_etag)
                /\ get_artifact_error_state' = ErrorState
                /\ log' = <<>>
                /\ etag' = incarnation
                /\ allowed' = ok
                /\ timedOut' = FALSE
                /\ idx' = 1
                /\ ext_handlers' = IF ok THEN SortHandlers(hs) ELSE hs
                /\ pc' = IF ok /\ hs # <<>> THEN "handle" ELSE "report"
                /\ last_etag' = IF ok /\ hs = <<>> THEN incarnation ELSE last_etag
    /\ UNCHANGED <<disk, repo, feed, incarnation, procEnv, conf, dv, iv, dl,
                   report_status_error_state, info_file, cs>>

\* the handling status of every extension of the handler, as the status files
\* stand
ExtStatuses(d, extensions) ==
    [i \in 1..Len(extensions) |->
        IF ~d.conf THEN "unreadable" ELSE get_ext_handling_status(d, extensions[i])]

\* what stands on disk when the loop is done with a handler
AfterEvent(w, h) ==
    [k |-> "after", name |-> h.name, sortKey |-> h.sortKey, late |-> w.timedOut,
     statuses |-> ExtStatuses(Dir(w.disk, h.name, h.version), h.extensions)]

\* one turn of the loop of handle_ext_handlers: the handler is handled, then
\* waited for when its level is gated.  A False wait ends the loop, as does the
\* last handler: run() then sets last_etag.  An exception of the wait ends run().
HandleExtHandler ==
    /\ pc = "handle"
    /\ LET h == ext_handlers[idx]
       IN  \E r \in handle_ext_handler(Machine(disk, log, h.version, get_artifact_error_state),
                                        h, etag, last_etag) :
             LET h2 == [h EXCEPT !.version = r.hv]
                 gated == Gated(h.sortKey, MaxDepLevel(ext_handlers))
                 NoWait == {[disk |-> r.disk, log |-> r.log, timedOut |-> timedOut,
                             result |-> "none"]}
             IN  \E w \in (IF gated
                           THEN wait_for_handler_successful_completion(r.disk, r.log, timedOut, h2)
                           ELSE NoWait) :
                   LET waited == IF gated
                                 THEN Append(w.log, [k |-> "wait", name |-> h.name,
                                                     result |-> w.result])
                                 ELSE w.log
                       after == Append(waited, AfterEvent(w, h2))
                   IN  /\ disk' = w.disk
                       /\ get_artifact_error_state' = r.gate
                       /\ timedOut' = w.timedOut
                       /\ ext_handlers' = [ext_handlers EXCEPT ![idx] = h2]
                       /\ IF w.result = "raise"
                          THEN /\ log' = RunExcept(after)
                               /\ pc' = "idle"
                               /\ cur' = [cur EXCEPT !.end = "raised"]
                               /\ UNCHANGED <<idx, last_etag>>
                          ELSE /\ log' = after
                               /\ cur' = [cur EXCEPT !.cut = IF w.result = "false" THEN idx ELSE 0]
                               /\ IF w.result = "false" \/ idx = Len(ext_handlers)
                                  THEN /\ last_etag' = etag
                                       /\ pc' = "report"
                                       /\ idx' = idx
                                  ELSE /\ idx' = idx + 1
                                       /\ UNCHANGED <<pc, last_etag>>
    /\ UNCHANGED <<repo, feed, incarnation, procEnv, conf, passes, etag, allowed, prev, vm_status,
                   dv, iv, dl, report_status_error_state, info_file, cs>>

\* ages of a heartbeat file, in milliseconds since it was last modified: ten
\* minutes, ten minutes and a half second, ten minutes and a second
HeartbeatAges == {600000, 600500, 601000}

\* what collect_heartbeat finds when the manifest asks for a heartbeat: no
\* heartbeat file, or a file of some age that holds an empty list ("empty"),
\* no JSON or no heartbeat key ("malformed"), or a heartbeat with a status
HeartbeatOutcomes ==
    {[file |-> "missing", age |-> 0]}
    \cup [file : {"empty", "malformed", "Ready", "NotReady"}, age : HeartbeatAges]

\* is_responsive(heartbeat_file): int(time.time() - st_mtime) <= 600, the age
\* cut to whole seconds
is_responsive(age) == (age \div 1000) <= 600

\* collect_heartbeat() on a handler directory given what the heartbeat file is:
\* None, a heartbeat, an ExtensionError, or the IndexError of [0] on an empty
\* list
collect_heartbeat(d, hb) ==
    IF ~d.manifest
    THEN [kind |-> "ExtensionError", message |-> "Failed to load manifest file",
          code |-> "PluginHandlerManifestNotFound"]
    ELSE IF ~d.man.reportHeartbeat THEN [kind |-> "None"]
    ELSE IF hb.file = "missing"
    THEN [kind |-> "ExtensionError", message |-> "Failed to get heart beat file", code |-> "-1"]
    ELSE IF ~is_responsive(hb.age) THEN [kind |-> "heartbeat", status |-> "Unresponsive"]
    ELSE IF hb.file = "malformed"
    THEN [kind |-> "ExtensionError", message |-> "Malformed heartbeat file", code |-> "-1"]
    ELSE IF hb.file = "empty" THEN [kind |-> "IndexError"]
    ELSE [kind |-> "heartbeat", status |-> hb.file]

\* a handler status also withheld for a handler that is not installed
get_handler_statusInstalledOnly(d) ==
    IF get_handler_state(d) = NotInstalled THEN NoStatus ELSE d.hstatus

\* get_handler_status(): the content of config/HandlerStatus, None when the
\* file does not exist
get_handler_status(d) == d.hstatus

\* report_ext_status(): the extensions whose status is collected, those with a
\* sequence number, by their position in the handler
report_ext_status(d, extensions) ==
    SelectSeq([i \in 1..Len(extensions) |-> i], LAMBDA i : StatusSeqNo(d, extensions[i]) # -1)

\* report_ext_handler_status(vm_status, ext_handler): r.vm is
\* vm_status.vmAgent.extensionHandlers.  An extension error of collect_heartbeat
\* is written to config/HandlerStatus; the entry added to the report is the
\* status read before.  Another error leaves the function: r.exc.
report_ext_handler_status(r, h) ==
    LET n == h.name
        v == h.version
        d == Dir(r.disk, n, v)
        handler_status == get_handler_status(d)
        Added(x, st, exts) ==
            [x EXCEPT !.vm = Append(@, [name |-> n, st |-> st, extensions |-> exts])]
        Failing(x, msg, code) ==
            [set_handler_status(x, n, v, "NotReady", msg, code)
                EXCEPT !.log = Append(@, [k |-> "collect_error", name |-> n, message |-> msg,
                                          code |-> code])]
        Read(x, hb) ==
            IF d.manifest /\ d.man.reportHeartbeat
            THEN [x EXCEPT !.log = Append(@, [k |-> "heartbeat", name |-> n,
                                              file |-> hb.file, age |-> hb.age])]
            ELSE x
    IN  IF handler_status = NoStatus THEN {r}
        ELSE IF get_handler_state(d) = NotInstalled THEN {Added(r, handler_status, <<>>)}
        ELSE { LET heartbeat == collect_heartbeat(d, hb)
                   active_exts == report_ext_status(d, h.extensions)
               IN  CASE heartbeat.kind = "ExtensionError" ->
                          Added(Failing(Read(r, hb), heartbeat.message, heartbeat.code),
                                handler_status, active_exts)
                     [] heartbeat.kind = "IndexError" -> [Read(r, hb) EXCEPT !.exc = TRUE]
                     [] heartbeat.kind = "None" -> Added(r, handler_status, active_exts)
                     [] OTHER ->
                          Added(Read(r, hb), [handler_status EXCEPT !.status = heartbeat.status],
                                active_exts)
               : hb \in IF d.manifest /\ d.man.reportHeartbeat
                        THEN HeartbeatOutcomes ELSE {[file |-> "missing", age |-> 0]} }

\* the loop of report_ext_handlers_status over the handlers from position i on;
\* an error that is no ExtensionError ends it
RECURSIVE ReportHandlers(_, _, _)
ReportHandlers(R, hs, i) ==
    IF i > Len(hs) THEN R
    ELSE ReportHandlers(UNION {IF r.exc THEN {r} ELSE report_ext_handler_status(r, hs[i])
                               : r \in R}, hs, i + 1)

\* what protocol.report_vm_status does: it returns or raises
UploadOutcomes == {"ok", "ProtocolNotFoundError", "ProtocolError"}

\* the handler statuses written with every field
write_ext_handlers_status_to_info_fileWhole(vm) ==
    [i \in DOMAIN vm |->
        [name |-> vm[i].name, version |-> vm[i].st.version, status |-> vm[i].st.status,
         code |-> vm[i].st.code, message |-> vm[i].st.message,
         extensions |-> vm[i].extensions]]

\* write_ext_handlers_status_to_info_file(vm_status): extensions_status, the
\* properties of every handler status without code, message and extensions
write_ext_handlers_status_to_info_file(vm) ==
    [i \in DOMAIN vm |->
        LET handler_status ==
                [name |-> vm[i].name, version |-> vm[i].st.version,
                 status |-> vm[i].st.status, code |-> vm[i].st.code,
                 message |-> vm[i].st.message, extensions |-> vm[i].extensions]
        IN  [f \in DOMAIN handler_status \ {"code", "message", "extensions"} |->
                handler_status[f]]]

\* report_ext_handlers_status(): the status of every handler of the goal state
\* is collected, the VM status is sent, a failure to send it is counted, and
\* waagent_status.json is written; cleanup_outdated_handlers is next.  An error
\* of the collection ends run().
ReportExtHandlersStatus ==
    /\ pc = "report"
    /\ \E r \in ReportHandlers({[disk |-> disk, vm |-> <<>>, log |-> log, exc |-> FALSE]},
                               ext_handlers, 1) :
         /\ disk' = r.disk
         /\ IF r.exc
            THEN /\ log' = RunExcept(r.log)
                 /\ pc' = "idle"
                 /\ cur' = [cur EXCEPT !.end = "raised"]
                 /\ UNCHANGED <<vm_status, report_status_error_state, info_file>>
            ELSE \E upload \in conf.upload :
                   LET count == IF upload = "ok" THEN ErrorState
                                ELSE incr(report_status_error_state)
                       sent == Append(r.log, [k |-> "report_vm_status", result |-> upload])
                       noted == IF upload = "ProtocolError"
                                THEN Append(sent, ProcessingEvent) ELSE sent
                   IN  \E triggered \in is_triggered(count) :
                         /\ vm_status' = r.vm
                         /\ report_status_error_state' = IF triggered THEN ErrorState ELSE count
                         /\ log' = IF triggered
                                   THEN Append(noted, [ProcessingEvent EXCEPT
                                                         !.op = "ReportStatusExtended"])
                                   ELSE noted
                         /\ info_file' =
                              [pass |-> passes,
                               extensions_status |-> write_ext_handlers_status_to_info_file(r.vm)]
                         /\ pc' = "cleanup"
                         /\ cur' = cur
    /\ UNCHANGED <<repo, feed, incarnation, procEnv, conf, passes, ext_handlers, etag, idx,
                   last_etag, timedOut, allowed, prev, dv, iv, dl, get_artifact_error_state, cs>>

\* the Name-Version directories cleanup_outdated_handlers queues: HandlerState
\* NotInstalled, or missing
UninstalledHandlers(dk) ==
    {k \in DOMAIN dk : dk[k].base /\ get_handler_state(dk[k]) = NotInstalled}

\* no zip taken as orphaned
OrphanedPkgsNone(dk) == {}

\* the Name-Version.zip files it queues: those without a Name-Version directory
OrphanedPkgs(dk) == {k \in DOMAIN dk : DashZip \in dk[k].zips /\ ~dk[k].base}

\* what is removed, in the order of removal: the orphaned packages, then each
\* uninstalled handler with its packages
CleanupEvents(dk) ==
    [i \in DOMAIN SelectSeq(DirOrder, LAMBDA k : k \in OrphanedPkgs(dk)) |->
        [k |-> "cleanup_pkg", key |-> SelectSeq(DirOrder, LAMBDA k : k \in OrphanedPkgs(dk))[i]]]
    \o
    [i \in DOMAIN SelectSeq(DirOrder, LAMBDA k : k \in UninstalledHandlers(dk)) |->
        [k |-> "cleanup_handler",
         key |-> SelectSeq(DirOrder, LAMBDA k : k \in UninstalledHandlers(dk))[i]]]

\* cleanup_outdated_handlers(): the orphaned zips are removed, then every
\* uninstalled handler's directory (remove_ext_handler, which takes
\* Name__Version.zip too) and its Name-Version.zip; run() returns
CleanupOutdatedHandlers ==
    /\ pc = "cleanup"
    /\ disk' = [k \in DOMAIN disk |->
                  IF k \in OrphanedPkgs(disk) THEN [disk[k] EXCEPT !.zips = @ \ {DashZip}]
                  ELSE IF k \in UninstalledHandlers(disk) THEN AbsentDir
                  ELSE disk[k]]
    /\ log' = log \o CleanupEvents(disk)
    /\ pc' = "idle"
    /\ cur' = [cur EXCEPT !.end = "completed"]
    /\ UNCHANGED <<repo, feed, incarnation, procEnv, conf, passes, ext_handlers, etag, idx,
                   last_etag, timedOut, allowed, prev, vm_status, dv, iv, dl,
                   get_artifact_error_state, report_status_error_state, info_file, cs>>

\* the control plane publishes the next goal state
NewGoalState ==
    /\ pc = "idle"
    /\ incarnation < Len(feed)
    /\ incarnation' = incarnation + 1
    /\ UNCHANGED <<disk, repo, feed, procEnv, conf, pc, passes, ext_handlers, etag, idx,
                   last_etag, timedOut, allowed, log, cur, prev, vm_status, dv, iv, dl,
                   get_artifact_error_state, report_status_error_state, info_file, cs>>

\* ------------------------------------------------------------------------
\* Goal states, publisher packages and configurations of the runs
\* ------------------------------------------------------------------------

HA(v, st, key, exts) == Handler("A", v, st, exts, key)

HB(key) == Handler("B", V10, "enabled", <<>>, key)

\* the packages of A (newest first, as the publisher may list them) and of B
RepoOf(manNew, hbB) ==
    [n \in Names |->
        IF n = "A" THEN <<Pkg(V11, 1, manNew), Pkg(V10, 1, DefaultManifest)>>
        ELSE <<Pkg(V10, 1, Manifest(FALSE, TRUE, hbB))>>]

\* upload: what protocol.report_vm_status may do in the run
ConfOn == [extensions_enabled |-> TRUE, enable_overprovisioning |-> FALSE,
           supports_overprovisioning |-> TRUE, upload |-> {"ok"}]

\* the status upload may fail
ConfOutage == [ConfOn EXCEPT !.upload = UploadOutcomes]

ConfOverprovisioning == [ConfOn EXCEPT !.enable_overprovisioning = TRUE]

ConfOff == [ConfOn EXCEPT !.extensions_enabled = FALSE]

Scenario(f, r, c, e) == [feed |-> f, repo |-> r, conf |-> c, procEnv |-> e]

\* two handlers, one goal state: dependency levels, extension sequence numbers
OrderingFeeds ==
    { << <<HB(1), HA(V10, "enabled", 0, <<Ext(0)>>)>> >>,
      << <<HA(V10, "enabled", -1, <<Ext(0)>>), HB(0)>> >>,
      << <<HA(V10, "enabled", 1, <<Ext(0)>>), HB(1)>> >>,
      << <<HA(V10, "enabled", 0, <<Ext(NoSeq)>>), HB(1)>> >>,
      << <<HA(V10, "enabled", 0, <<Ext(0), Ext(1)>>), HB(1)>> >> }

\* one handler, successive goal states: upgrade, downgrade, disable, uninstall,
\* and an upgrade followed by a goal state that asks for the same again
LifecycleFeeds ==
    { << <<HA(V10, "enabled", 0, <<>>)>>, <<HA(V11, "enabled", 0, <<>>)>> >>,
      << <<HA(V11, "enabled", 0, <<>>)>>, <<HA(V10, "enabled", 0, <<>>)>> >>,
      << <<HA(V10, "enabled", 0, <<>>)>>, <<HA(V10, "disabled", 0, <<>>)>> >>,
      << <<HA(V10, "enabled", 0, <<>>)>>, <<HA(V10, "uninstall", 0, <<>>)>> >>,
      << <<HA(V1, "enabled", 0, <<>>)>> >>,
      << <<HA(V10, "enabled", 0, <<>>)>>, <<HA(V11, "enabled", 0, <<>>)>>,
         <<HA(V11, "enabled", 0, <<>>)>> >> }

\* two handlers, two goal states: the first handler of two levels is enabled,
\* then asked to be uninstalled
UninstallFeed ==
    << <<HA(V10, "enabled", 0, <<Ext(0)>>), HB(1)>>,
       <<HA(V10, "uninstall", 0, <<Ext(0)>>), HB(1)>> >>

\* the packages of r, their first URI giving the zip the name zip
Named(r, zip) == [n \in DOMAIN r |-> [i \in DOMAIN r[n] |-> [r[n][i] EXCEPT !.zip = zip]]]

\* the runs: in those of two handlers without heartbeat the status upload may
\* fail; one run uninstalls the first of two handlers; the last ones are a
\* handler with a heartbeat under overprovisioning
Scenarios ==
    { Scenario(f, RepoOf(DefaultManifest, hb), IF hb THEN ConfOn ELSE ConfOutage, {})
        : f \in OrderingFeeds, hb \in BOOLEAN }
    \cup { Scenario(UninstallFeed, RepoOf(DefaultManifest, FALSE), ConfOn, {}) }
    \cup { Scenario(f, Named(RepoOf(Manifest(cont, uwi, FALSE), FALSE), zip), ConfOn, e)
        : f \in LifecycleFeeds, cont \in BOOLEAN, uwi \in BOOLEAN, e \in {{}, EnvVars},
          zip \in {UnderZip, DashZip} }
    \cup { Scenario(<< <<HA(V10, "enabled", 0, <<>>)>> >>, RepoOf(DefaultManifest, FALSE), c, {})
        : c \in {ConfOverprovisioning, ConfOff} }
    \cup { Scenario(<< <<HB(0)>> >>, RepoOf(DefaultManifest, TRUE), c, {})
        : c \in {ConfOverprovisioning,
                 [ConfOverprovisioning EXCEPT !.supports_overprovisioning = FALSE]} }

NoPass == [ok |-> FALSE, handlers |-> <<>>, etag |-> 0, last_etag |-> 0, end |-> "none",
           cut |-> 0]

NoDecision == [pkgs |-> <<>>, requested |-> NoVersion, installed |-> NoVersion,
               target |-> "enabled", done |-> FALSE, out |-> decide_version(<<>>, NoVersion, NoVersion, "enabled")]

NoListing == [paths |-> <<>>, name |-> "A", done |-> FALSE, out |-> NoVersion]

\* waagent_status.json not written yet
NoInfoFile == [pass |-> 0, extensions_status |-> <<>>]

NoCollect ==
    [seq_no |-> -1, doc |-> [file |-> "unreadable", data |-> <<>>], done |-> FALSE,
     out |-> collect_ext_status(-1, [file |-> "unreadable", data |-> <<>>])]

\* the agent before its first run(), the library directory empty
Boot ==
    /\ disk = EmptyDisk
    /\ incarnation = 1
    /\ pc = "idle"
    /\ passes = 0
    /\ ext_handlers = <<>>
    /\ etag = 0
    /\ idx = 1
    /\ last_etag = 0
    /\ timedOut = FALSE
    /\ allowed = FALSE
    /\ log = <<>>
    /\ cur = NoPass
    /\ prev = NoPass
    /\ vm_status = <<>>
    /\ get_artifact_error_state = ErrorState
    /\ report_status_error_state = ErrorState
    /\ info_file = NoInfoFile

Init ==
    /\ \E sc \in Scenarios :
         /\ feed = sc.feed
         /\ repo = sc.repo
         /\ conf = sc.conf
         /\ procEnv = sc.procEnv
    /\ Boot
    /\ dv = NoDecision
    /\ iv = NoListing
    /\ dl = NoDownload
    /\ cs = NoCollect

Next ==
    \/ RunFetch
    \/ HandleExtHandler
    \/ ReportExtHandlersStatus
    \/ CleanupOutdatedHandlers
    \/ NewGoalState

Spec == Init /\ [][Next]_vars

\* ------------------------------------------------------------------------
\* decide_version on its own
\* ------------------------------------------------------------------------

D100 == <<1, 0, 0>>
D105 == <<1, 0, 5>>
D112 == <<1, 1, 2>>
D200 == <<2, 0, 0>>
D210 == <<2, 1, 0>>

DecideVersions == {D100, D105, D112, D200, D210}

\* requested versions: 1.*, 1.0.*, 1.1.2, 2.*, 3.*
DecideRequested == {<<1>>, <<1, 0>>, D112, <<2>>, <<3>>}

\* package lists of at most MaxPkgs packages, every version listed once, in
\* any order
DecidePkgLists ==
    UNION { { [i \in 1..len |-> Pkg(f[i], 1, DefaultManifest)]
              : f \in {g \in [1..len -> DecideVersions] :
                          \A i, j \in 1..len : i # j => g[i] # g[j]} }
            : len \in 0..MaxPkgs }

InitDecide ==
    /\ feed = <<>>
    /\ repo = RepoOf(DefaultManifest, FALSE)
    /\ conf = ConfOn
    /\ procEnv = {}
    /\ Boot
    /\ \E pkgs \in DecidePkgLists, requested \in DecideRequested,
          installed \in DecideVersions \cup {NoVersion},
          target \in {"enabled", "disabled", "uninstall"} :
         dv = [NoDecision EXCEPT !.pkgs = pkgs, !.requested = requested,
                                 !.installed = installed, !.target = target]
    /\ iv = NoListing
    /\ dl = NoDownload
    /\ cs = NoCollect

DecideVersionRun ==
    /\ ~dv.done
    /\ dv' = [dv EXCEPT !.done = TRUE,
                        !.out = decide_version(dv.pkgs, dv.requested, dv.installed, dv.target)]
    /\ UNCHANGED <<disk, repo, feed, incarnation, procEnv, conf, pc, passes, ext_handlers, etag,
                   idx, last_etag, timedOut, allowed, log, cur, prev, vm_status, iv, dl,
                   get_artifact_error_state, report_status_error_state, info_file, cs>>

NextDecide == DecideVersionRun

SpecDecide == InitDecide /\ [][NextDecide]_vars

\* ------------------------------------------------------------------------
\* get_installed_version on its own
\* ------------------------------------------------------------------------

L19 == <<1, 9>>
L110 == <<1, 10>>

\* the items Name-Version a listing may hold, three versions of A and one of B,
\* each a file, or a directory with or without a HandlerState
ListedEntries ==
    LET keys == {<<"A", L19>>, <<"A", L110>>, <<"A", D200>>, <<"B", D210>>}
    IN  { LibEntry(k[1], k[2], FALSE, NoStateFile) : k \in keys }
        \cup { LibEntry(k[1], k[2], TRUE, st)
                : k \in keys, st \in {NoStateFile, NotInstalled, Installed, Enabled, Failed} }

\* listings of at most MaxDirs items, every item once, in any order
Listings ==
    UNION { { f \in [1..len -> ListedEntries] :
                \A i, j \in 1..len :
                    i # j => <<f[i].name, f[i].version>> # <<f[j].name, f[j].version>> }
            : len \in 0..MaxDirs }

InitInstalled ==
    /\ feed = <<>>
    /\ repo = RepoOf(DefaultManifest, FALSE)
    /\ conf = ConfOn
    /\ procEnv = {}
    /\ Boot
    /\ dv = NoDecision
    /\ dl = NoDownload
    /\ cs = NoCollect
    /\ \E paths \in Listings : iv = [NoListing EXCEPT !.paths = paths]

GetInstalledVersionRun ==
    /\ ~iv.done
    /\ iv' = [iv EXCEPT !.done = TRUE, !.out = get_installed_version_listed(iv.paths, iv.name)]
    /\ UNCHANGED <<disk, repo, feed, incarnation, procEnv, conf, pc, passes, ext_handlers, etag,
                   idx, last_etag, timedOut, allowed, log, cur, prev, vm_status, dv, dl,
                   get_artifact_error_state, report_status_error_state, info_file, cs>>

SpecInstalled == InitInstalled /\ [][GetInstalledVersionRun]_vars

\* ------------------------------------------------------------------------
\* download() on its own, one step per attempt
\* ------------------------------------------------------------------------

\* download() for a package of a given number of URIs: the handler directory
\* is there (handle_enable has written HandlerState), the destination zip is
\* there or not
InitDownload ==
    /\ feed = <<>>
    /\ repo = RepoOf(DefaultManifest, FALSE)
    /\ conf = ConfOn
    /\ procEnv = {}
    /\ Boot
    /\ dv = NoDecision
    /\ iv = NoListing
    /\ cs = NoCollect
    /\ \E n \in 0..MaxUris, cached \in BOOLEAN :
         dl = [NoDownload EXCEPT !.pc = "begin", !.nuris = n, !.base = TRUE,
                                 !.zip = (cached /\ n > 0)]

\* up to the retry loop: no URI is an error; an existing destination is
\* unzipped, and ignored when the unzip fails
DownloadStart ==
    /\ dl.pc = "begin"
    /\ IF dl.nuris = 0
       THEN dl' = [dl EXCEPT !.pc = "raised", !.exc = "ExtensionDownloadError", !.code = "-1"]
       ELSE IF dl.zip
            THEN \/ dl' = [unzip_extension_package(dl, TRUE) EXCEPT
                                !.pc = "returned", !.package_exists = TRUE]
                 \/ dl' = [unzip_extension_package(dl, FALSE) EXCEPT !.pc = "while"]
            ELSE dl' = [dl EXCEPT !.pc = "while"]
    /\ UNCHANGED <<disk, repo, feed, incarnation, procEnv, conf, pc, passes, ext_handlers, etag,
                   idx, last_etag, timedOut, allowed, log, cur, prev, vm_status, dv, iv,
                   get_artifact_error_state, report_status_error_state, info_file, cs>>

\* the test of the while loop: another round over the shuffled URIs, or the
\* download error
RoundStart ==
    /\ dl.pc = "while"
    /\ IF MoreRounds(dl.i)
       THEN \E order \in Shuffles(dl.nuris) :
                dl' = [dl EXCEPT !.pc = "for", !.rest = order, !.tried = {}]
       ELSE dl' = [dl EXCEPT !.pc = "raised", !.exc = "ExtensionDownloadError",
                             !.code = "PluginManifestDownloadError"]
    /\ UNCHANGED <<disk, repo, feed, incarnation, procEnv, conf, pc, passes, ext_handlers, etag,
                   idx, last_etag, timedOut, allowed, log, cur, prev, vm_status, dv, iv,
                   get_artifact_error_state, report_status_error_state, info_file, cs>>

\* the next URI of the round is downloaded to the destination; a failure goes
\* on with the URI after it
DownloadPackage ==
    /\ dl.pc = "for"
    /\ dl.rest # <<>>
    /\ \E ok \in BOOLEAN, partial \in BOOLEAN :
         LET d == download_extension_package(
                      [dl EXCEPT !.tried = @ \cup {Head(dl.rest)}, !.attempts = @ + 1], ok, partial)
         IN  dl' = IF ok THEN [d EXCEPT !.pc = "unzip"] ELSE [d EXCEPT !.rest = Tail(@)]
    /\ UNCHANGED <<disk, repo, feed, incarnation, procEnv, conf, pc, passes, ext_handlers, etag,
                   idx, last_etag, timedOut, allowed, log, cur, prev, vm_status, dv, iv,
                   get_artifact_error_state, report_status_error_state, info_file, cs>>

\* the downloaded package is unzipped: success ends both loops, download()
\* reports the event and returns; a failure goes on with the next URI
UnzipPackage ==
    /\ dl.pc = "unzip"
    /\ \/ dl' = [unzip_extension_package(dl, TRUE) EXCEPT !.pc = "returned", !.downloaded = TRUE]
       \/ dl' = [unzip_extension_package(dl, FALSE) EXCEPT !.pc = "for", !.rest = Tail(@)]
    /\ UNCHANGED <<disk, repo, feed, incarnation, procEnv, conf, pc, passes, ext_handlers, etag,
                   idx, last_etag, timedOut, allowed, log, cur, prev, vm_status, dv, iv,
                   get_artifact_error_state, report_status_error_state, info_file, cs>>

\* every URI of the round failed: sleep a minute, i += 1
RoundEnd ==
    /\ dl.pc = "for"
    /\ dl.rest = <<>>
    /\ dl' = [dl EXCEPT !.pc = "while", !.i = @ + 1]
    /\ UNCHANGED <<disk, repo, feed, incarnation, procEnv, conf, pc, passes, ext_handlers, etag,
                   idx, last_etag, timedOut, allowed, log, cur, prev, vm_status, dv, iv,
                   get_artifact_error_state, report_status_error_state, info_file, cs>>

NextDownload ==
    \/ DownloadStart
    \/ RoundStart
    \/ DownloadPackage
    \/ UnzipPackage
    \/ RoundEnd

SpecDownload == InitDownload /\ [][NextDownload]_vars

\* download() runs in one thread and each step returns: no step waits for ever
SpecDownloadFair == SpecDownload /\ WF_vars(NextDownload)

\* ------------------------------------------------------------------------
\* collect_ext_status on its own
\* ------------------------------------------------------------------------

\* the object under the key status of a status document
StatusData ==
    [status : {Absent, "bogus"} \cup VALID_EXTENSION_STATUS,
     code : {Absent, "7"},
     formattedMessage : {Absent, "lang_message", "no_lang"},
     substatus : {<<>>} \cup {<<[status |-> st]>> : st \in {Absent, "bogus", "success"}}]

\* status files: one that cannot be read, one that is no JSON, and JSON lists
\* that are empty or hold one object, with or without the key status
StatusDocs ==
    {[file |-> f, data |-> <<>>] : f \in {"unreadable", "not_json", "json"}}
    \cup {[file |-> "json", data |-> <<[has_status |-> has, status |-> sd]>>]
            : has \in BOOLEAN, sd \in StatusData}

InitCollect ==
    /\ feed = <<>>
    /\ repo = RepoOf(DefaultManifest, FALSE)
    /\ conf = ConfOn
    /\ procEnv = {}
    /\ Boot
    /\ dv = NoDecision
    /\ iv = NoListing
    /\ dl = NoDownload
    /\ \E seq_no \in {-1, 0}, doc \in StatusDocs :
         cs = [NoCollect EXCEPT !.seq_no = seq_no, !.doc = doc]

CollectExtStatusRun ==
    /\ ~cs.done
    /\ cs' = [cs EXCEPT !.done = TRUE, !.out = collect_ext_status(cs.seq_no, cs.doc)]
    /\ UNCHANGED <<disk, repo, feed, incarnation, procEnv, conf, pc, passes, ext_handlers, etag,
                   idx, last_etag, timedOut, allowed, log, cur, prev, vm_status, dv, iv, dl,
                   get_artifact_error_state, report_status_error_state, info_file>>

SpecCollect == InitCollect /\ [][CollectExtStatusRun]_vars

\* ------------------------------------------------------------------------
\* Properties
\* ------------------------------------------------------------------------

\* the positions of the packages of the list that the requested version matches
MatchingPositions == {i \in 1..Len(dv.pkgs) : Matches(dv.requested, dv.pkgs[i].version)}

\* the positions of the packages whose version is the installed version
InstalledPositions == {i \in 1..Len(dv.pkgs) : VersionEq(dv.pkgs[i].version, dv.installed)}

LogIdx == 1..Len(log)

\* a lifecycle command or a download
IsWork(e) == e.k \in {"cmd", "download"}

\* anything done for a handler when it is dispatched
IsDispatch(e) == e.k \in {"handle", "decide", "target", "cmd", "download", "init", "settings",
                          "copy", "rmdir"}

HandleIdx == {i \in LogIdx : log[i].k = "handle"}

\* run() has run twice in a row on the same handlers and the same etag
SameGoalStateTwice ==
    /\ prev.ok
    /\ cur.ok
    /\ prev.etag = cur.etag
    /\ prev.handlers = cur.handlers

NoWorkInPass == \A i \in LogIdx : ~IsWork(log[i])

\* C1 as stated: when run() executes twice in a row with the same handlers and
\* the same etag, the second pass issues no command and no download.
C1_Original == SameGoalStateTwice => NoWorkInPass

\* C1: when run() executes twice in a row with the same handlers and the same
\* etag and the first pass recorded that etag, the second pass issues a command
\* or a download only for a handler whose version decision is an upgrade.
C1_SecondPassSkips ==
    (SameGoalStateTwice /\ cur.last_etag = cur.etag) =>
        \A i \in LogIdx :
            IsWork(log[i]) =>
                \E j \in 1..(i - 1) : /\ log[j].k = "decide"
                                      /\ log[j].name = log[i].name
                                      /\ log[j].is_upgrade

\* the first pass enabled the handler; the second pass decided on it, found it
\* current and went on to report without a command
C1_Witness ==
    /\ SameGoalStateTwice
    /\ cur.last_etag = cur.etag
    /\ pc = "report"
    /\ NoWorkInPass
    /\ \E i \in LogIdx : /\ log[i].k = "decide"
                         /\ log[i].found
                         /\ ~log[i].is_upgrade
                         /\ Dir(disk, log[i].name, log[i].version).state = Enabled

MaxLevel == MaxDepLevel(cur.handlers)

AllSuccess(statuses) == \A e \in DOMAIN statuses : statuses[e] = EXTENSION_STATUS_SUCCESS

\* C2: when the loop is done with a handler of level 0 <= L < maxLevel whose
\* extensions have not all reached success, or the deadline has passed, nothing
\* is dispatched later in the pass.
C2_DependencyGate ==
    \A i \in LogIdx :
        ( /\ log[i].k = "after"
          /\ log[i].sortKey >= 0
          /\ log[i].sortKey < MaxLevel
          /\ (log[i].late \/ ~AllSuccess(log[i].statuses)) )
        => \A j \in LogIdx : j > i => ~IsDispatch(log[j])

\* A (level 0) ran its commands, its extension reported error in time, and the
\* pass went on to report with B (level 1) not dispatched
C2_Witness ==
    /\ pc = "report"
    /\ Len(cur.handlers) = 2
    /\ Cardinality(HandleIdx) = 1
    /\ \E i \in LogIdx : /\ log[i].k = "after"
                         /\ log[i].name = "A"
                         /\ log[i].sortKey = 0
                         /\ ~log[i].late
                         /\ log[i].statuses = <<"error">>
    /\ \E i \in LogIdx : log[i].k = "cmd" /\ log[i].name = "A"

\* C3: the wait returns True only if every extension of the handler has status
\* success; a null status does not make it return True.
C3_WaitTrueOnlyOnSuccess ==
    \A i \in LogIdx :
        log[i].k = "wait" =>
            /\ log[i + 1].k = "after"
            /\ log[i + 1].name = log[i].name
            /\ log[i].result = "true" => AllSuccess(log[i + 1].statuses)
            /\ (\E e \in DOMAIN log[i + 1].statuses : log[i + 1].statuses[e] = "None")
                   => log[i].result = "false"

\* the only extension of A has a null status: the wait did not poll for it (the
\* deadline has not passed) and returned False
C3_Witness ==
    \E i \in LogIdx : /\ log[i].k = "wait"
                      /\ log[i].name = "A"
                      /\ log[i].result = "false"
                      /\ log[i + 1].statuses = <<"None">>
                      /\ ~log[i + 1].late
                      /\ log[i - 2].k = "poll"
                      /\ log[i - 2].status = "None"

\* C4: handlers are dispatched in ascending sortKey order, and everything done
\* for one handler is done before anything is done for the next one.
C4_SerialAscending ==
    /\ \A i, j \in HandleIdx : i < j => log[i].sortKey <= log[j].sortKey
    /\ \A i, j \in LogIdx :
          (i < j /\ IsDispatch(log[i]) /\ IsDispatch(log[j]) /\ log[i].name # log[j].name)
          => /\ \E h \in HandleIdx : i < h /\ h <= j /\ log[h].name = log[j].name
             /\ \A l \in LogIdx : (l > j /\ IsDispatch(log[l])) => log[l].name # log[i].name

\* the goal state lists B (level 1) before A (level 0): A was dispatched and
\* ran a command before B was dispatched and ran one
C4_Witness ==
    /\ pc = "report"
    /\ Len(cur.handlers) = 2
    /\ cur.handlers[1].sortKey > cur.handlers[2].sortKey
    /\ \E i, j, l, m \in LogIdx :
          /\ i < j /\ j < l /\ l < m
          /\ log[i].k = "handle" /\ log[i].name = cur.handlers[2].name
          /\ log[j].k = "cmd" /\ log[j].name = cur.handlers[2].name
          /\ log[l].k = "handle" /\ log[l].name = cur.handlers[1].name
          /\ log[m].k = "cmd" /\ log[m].name = cur.handlers[1].name

\* C5: after a handler whose sortKey is maxLevel or negative there is no wait
\* and the next handler of the order is dispatched whatever the status of its
\* extensions; after a handler with 0 <= sortKey < maxLevel there is a wait.
C5_WaitExactlyBelowMax ==
    \A i \in LogIdx :
        log[i].k = "after" =>
            IF log[i].sortKey < 0 \/ log[i].sortKey = MaxLevel
            THEN /\ \A j \in LogIdx :
                       log[j].k \in {"wait", "poll"} => log[j].name # log[i].name
                 /\ \/ pc = "handle"
                    \/ Cardinality(HandleIdx) = Len(cur.handlers)
                    \/ \E j \in HandleIdx : j > i
            ELSE /\ log[i - 1].k = "wait"
                 /\ log[i - 1].name = log[i].name

\* A has sortKey -1 and its extension has not reported success; B was
\* dispatched after it all the same
C5_Witness ==
    \E i, j \in LogIdx :
        /\ i < j
        /\ log[i].k = "after"
        /\ log[i].name = "A"
        /\ log[i].sortKey < 0
        /\ ~AllSuccess(log[i].statuses)
        /\ log[j].k = "handle"
        /\ log[j].name = "B"

\* --- one handler in the log of a pass ---

\* the lifecycle commands run for handler n, in order
CmdsOf(n) == SelectSeq(log, LAMBDA e : e.k = "cmd" /\ e.name = n)

\* the commands, status copies and directory removals done for handler n
StepsOf(n) == SelectSeq(log, LAMBDA e : e.k \in {"cmd", "copy", "rmdir"} /\ e.name = n)

CmdNames(cmds) == [i \in 1..Len(cmds) |-> cmds[i].cmd]

DecideIdx(n) == {i \in LogIdx : log[i].k = "decide" /\ log[i].name = n}

\* run() has returned
PassEnded == pc = "idle" /\ cur.end \in {"completed", "raised"}

\* handler n had no installed version, its target is enabled, and its
\* download, initialization, install and enable all succeeded
FreshInstallSucceeded(n) ==
    /\ \E i \in DecideIdx(n) : log[i].found /\ log[i].installed = NoVersion
    /\ \E i \in LogIdx : log[i].k = "target" /\ log[i].name = n /\ log[i].state = "enabled"
    /\ \E i \in LogIdx : /\ log[i].k = "event" /\ log[i].name = n
                         /\ log[i].op = "Download" /\ log[i].ok
    /\ \E i \in LogIdx : log[i].k = "init" /\ log[i].name = n /\ log[i].ok
    /\ \E i \in LogIdx : /\ log[i].k = "cmd" /\ log[i].name = n
                         /\ log[i].cmd = "install" /\ log[i].ok
    /\ \E i \in LogIdx : /\ log[i].k = "cmd" /\ log[i].name = n
                         /\ log[i].cmd = "enable" /\ log[i].ok

DecidedDir(n) == Dir(disk, n, log[CHOOSE i \in DecideIdx(n) : TRUE].version)

CollectError(n) == \E i \in LogIdx : log[i].k = "collect_error" /\ log[i].name = n

\* C6 as stated: after a fresh install whose steps all succeed the commands of
\* the pass are install then enable, and the pass ends with HandlerState
\* Enabled and handler status Ready.
C6_Original ==
    \A n \in Names :
        FreshInstallSucceeded(n) =>
            /\ CmdNames(CmdsOf(n)) = <<"install", "enable">>
            /\ PassEnded => /\ DecidedDir(n).state = Enabled
                            /\ DecidedDir(n).hstatus.status = "Ready"

\* C6: after a fresh install whose steps all succeed the commands of the pass
\* are install then enable, each once, and the pass ends with HandlerState
\* Enabled; the handler status is Ready at the end of the pass unless the
\* status report of the pass hit an extension error collecting the handler's
\* heartbeat, and is then NotReady.
C6_FreshInstall ==
    \A n \in Names :
        FreshInstallSucceeded(n) =>
            /\ CmdNames(CmdsOf(n)) = <<"install", "enable">>
            /\ PassEnded =>
                 /\ DecidedDir(n).state = Enabled
                 /\ DecidedDir(n).hstatus.status = IF CollectError(n) THEN "NotReady" ELSE "Ready"

\* the pass that installed and enabled A on an empty library has ended: A is
\* Enabled and Ready
C6_Witness ==
    /\ PassEnded
    /\ cur.end = "completed"
    /\ FreshInstallSucceeded("A")
    /\ CmdNames(CmdsOf("A")) = <<"install", "enable">>
    /\ Dir(disk, "A", V10).state = Enabled
    /\ Dir(disk, "A", V10).hstatus.status = "Ready"

\* the manifest of the package of handler n the pass decided on
NewManifest(n) ==
    LET v == log[CHOOSE i \in DecideIdx(n) : TRUE].version
        I == {i \in 1..Len(repo[n]) : repo[n][i].version = v}
    IN  repo[n][CHOOSE i \in I : TRUE].man

\* the pass decided to replace the installed version of n by another one
UpgradeOf(n) ==
    \E i \in DecideIdx(n) : /\ log[i].found
                            /\ log[i].installed # NoVersion
                            /\ ~VersionEq(log[i].version, log[i].installed)

NewVersion(n) == log[CHOOSE i \in DecideIdx(n) : TRUE].version

OldVersion(n) == log[CHOOSE i \in DecideIdx(n) : TRUE].installed

OldDisableFailed(n) ==
    \E i \in LogIdx : /\ log[i].k = "cmd" /\ log[i].name = n /\ log[i].cmd = "disable"
                      /\ log[i].dir = OldVersion(n) /\ ~log[i].ok

\* the variable reaches the command with the value the phase gave it
PhaseSet(e, var) == var \in e.env.defined /\ var \notin e.env.inherited

\* C7: in an upgrade to a greater version whose manifest has
\* continueOnUpdateFailure and updateWithInstall, when the old disable fails
\* and the commands of the new version succeed, the steps are: old.disable,
\* status copy, new.update with DISABLE_FAILED=1, old.uninstall, removal of the
\* old directory, new.install with UNINSTALL_FAILED set iff old.uninstall
\* failed, new.enable; the new version ends Enabled.
C7_UpgradeContinues ==
    \A n \in Names :
        ( /\ UpgradeOf(n)
          /\ VersionGT(NewVersion(n), OldVersion(n))
          /\ NewManifest(n).continueOnUpdateFailure
          /\ NewManifest(n).updateWithInstall
          /\ OldDisableFailed(n)
          /\ \E i \in LogIdx : log[i].k = "after" /\ log[i].name = n
          /\ \A i \in LogIdx : (log[i].k = "cmd" /\ log[i].name = n
                                /\ log[i].dir = NewVersion(n)) => log[i].ok )
        => LET st == StepsOf(n)
               new == NewVersion(n)
               old == OldVersion(n)
           IN  /\ Len(st) = 7
               /\ st[1].k = "cmd" /\ st[1].cmd = "disable" /\ st[1].dir = old
               /\ st[2].k = "copy" /\ st[2].from = old /\ st[2].dir = new
               /\ st[3].k = "cmd" /\ st[3].cmd = "update" /\ st[3].dir = new
               /\ PhaseSet(st[3], "AZURE_GUEST_AGENT_DISABLE_FAILED")
               /\ st[4].k = "cmd" /\ st[4].cmd = "uninstall" /\ st[4].dir = old
               /\ st[5].k = "rmdir" /\ st[5].dir = old
               /\ st[6].k = "cmd" /\ st[6].cmd = "install" /\ st[6].dir = new
               /\ ("AZURE_GUEST_AGENT_UNINSTALL_FAILED" \in st[6].env.defined) <=> ~st[4].ok
               /\ st[7].k = "cmd" /\ st[7].cmd = "enable" /\ st[7].dir = new
               /\ pc = "report" => Dir(disk, n, new).state = Enabled

\* C8: in an upgrade whose manifest has not continueOnUpdateFailure, when the
\* old disable fails no update, install or enable command runs on the new
\* version in the pass, the update error is written to the handler status of
\* the new version, and the only failure telemetry of the handler is that of
\* the old version.
C8_UpgradeStops ==
    \A n \in Names :
        ( /\ UpgradeOf(n)
          /\ ~NewManifest(n).continueOnUpdateFailure
          /\ OldDisableFailed(n) )
        => /\ \A i \in LogIdx :
                 (log[i].k = "cmd" /\ log[i].name = n)
                 => /\ log[i].cmd = "disable"
                    /\ log[i].dir = OldVersion(n)
           /\ pc = "report" =>
                 /\ Dir(disk, n, NewVersion(n)).hstatus.status = "NotReady"
                 /\ Dir(disk, n, NewVersion(n)).hstatus.message = "ExtensionUpdateError"
                 /\ Dir(disk, n, NewVersion(n)).hstatus.version = NewVersion(n)
           /\ \A i \in LogIdx :
                 (log[i].k = "event" /\ log[i].name = n /\ ~log[i].ok)
                 => log[i].version = OldVersion(n)
           /\ \E i \in LogIdx : /\ log[i].k = "event" /\ log[i].name = n /\ ~log[i].ok
                                /\ log[i].version = OldVersion(n) /\ log[i].op = "Disable"

\* A-1.0 is installed, the goal state asks for 1.1 whose manifest has not
\* continueOnUpdateFailure, the disable command of 1.0 failed: 1.1 carries the
\* update error and the pass goes on to report
C8_Witness ==
    /\ pc = "report"
    /\ UpgradeOf("A")
    /\ NewVersion("A") = V11
    /\ OldVersion("A") = V10
    /\ ~NewManifest("A").continueOnUpdateFailure
    /\ OldDisableFailed("A")
    /\ Dir(disk, "A", V11).hstatus.message = "ExtensionUpdateError"
    /\ Len(CmdsOf("A")) = 1

\* C9: the update command of an upgrade runs in the directory of the new
\* version when the new version is greater than the installed one and in the
\* directory of the installed one otherwise, and its VERSION variable is the
\* new version in both cases.
C9_UpdateDirectoryAndVersion ==
    \A i \in LogIdx :
        (log[i].k = "cmd" /\ log[i].cmd = "update") =>
            LET n == log[i].name
            IN  /\ UpgradeOf(n)
                /\ log[i].dir = IF VersionGT(NewVersion(n), OldVersion(n))
                                THEN NewVersion(n) ELSE OldVersion(n)
                /\ log[i].env.version = NewVersion(n)
                /\ PhaseSet(log[i], "VERSION")

\* --- the upgrade flag of decide_version ---

\* the version that stands for the installed one: the requested version when
\* nothing is installed
StandInVersion == IF dv.installed = NoVersion THEN dv.requested ELSE dv.installed

\* the package of the list that has exactly that version (none: NoPkg)
ListedInstalledPkg ==
    LET I == {i \in 1..Len(dv.pkgs) : VersionEq(dv.pkgs[i].version, StandInVersion)}
    IN  IF I = {} THEN NoPkg ELSE dv.pkgs[CHOOSE i \in I : TRUE]

\* the package of greatest version among those the requested version matches
ListedSelectedPkg ==
    IF MatchingPositions = {} THEN NoPkg
    ELSE dv.pkgs[CHOOSE i \in MatchingPositions :
                    \A j \in MatchingPositions :
                        ~VersionLT(dv.pkgs[i].version, dv.pkgs[j].version)]

\* the package decide_version returns: the installed one for the targets
\* uninstall and disabled, the selected one otherwise
ListedUsedPkg ==
    IF dv.target \in {"uninstall", "disabled"} THEN ListedInstalledPkg ELSE ListedSelectedPkg

Handled(n) == \E i \in LogIdx : log[i].k = "after" /\ log[i].name = n

\* handle_ext_handler dispatched handler n on the target state st
Targeted(n, st) == \E i \in LogIdx : log[i].k = "target" /\ log[i].name = n /\ log[i].state = st

\* C12: once a handler with target uninstall has been through handle_uninstall
\* its Name-Version directory no longer exists, also when its disable command
\* or its uninstall command failed.
C12_UninstallRemovesDirectory ==
    \A n \in Names :
        (Targeted(n, "uninstall") /\ Handled(n)) => ~DecidedDir(n).base

\* the state and status files of handler n when it was dispatched
BeforeOf(n) == log[CHOOSE i \in LogIdx : log[i].k = "target" /\ log[i].name = n].before

\* the status report of the pass has not run yet
NotReported == \A i \in LogIdx : log[i].k # "report_vm_status"

\* C13: handle_disable runs the disable command only when HandlerState is
\* Enabled, and a disable that succeeds leaves HandlerState Installed and the
\* handler status NotReady, 'Plugin disabled'; in every other state no command
\* runs and HandlerState and HandlerStatus stay as they were.
C13_DisableOnlyWhenEnabled ==
    \A n \in Names :
        (Targeted(n, "disabled") /\ Handled(n)) =>
            IF BeforeOf(n).state = Enabled
            THEN /\ CmdNames(CmdsOf(n)) = <<"disable">>
                 /\ (CmdsOf(n)[1].ok /\ NotReported) =>
                        /\ DecidedDir(n).state = Installed
                        /\ DecidedDir(n).hstatus.status = "NotReady"
                        /\ DecidedDir(n).hstatus.message = "Plugin disabled"
            ELSE /\ CmdsOf(n) = <<>>
                 /\ NotReported => /\ DecidedDir(n).state = BeforeOf(n).state
                                   /\ DecidedDir(n).hstatus = BeforeOf(n).hstatus

\* A-1.0 was Enabled, the goal state asks for disabled, the command succeeded:
\* A-1.0 is Installed, NotReady, 'Plugin disabled'
C13_Witness ==
    /\ Targeted("A", "disabled")
    /\ Handled("A")
    /\ NotReported
    /\ BeforeOf("A").state = Enabled
    /\ Len(CmdsOf("A")) = 1
    /\ CmdsOf("A")[1].ok
    /\ Dir(disk, "A", V10).state = Installed
    /\ Dir(disk, "A", V10).hstatus.message = "Plugin disabled"

\* --- the persisted HandlerState ---

\* the writes of HandlerState that changed what get_handler_state returns
StateChanges == {i \in LogIdx : log[i].k = "state" /\ log[i].from # log[i].to}

\* the changes of HandlerState the lifecycle names
LifecycleTransition(from, to) ==
    \/ from = NotInstalled /\ to = Installed
    \/ from = Installed /\ to = Enabled
    \/ from = Enabled /\ to = Installed
    \/ to = Failed
    \/ to = NotInstalled

\* C14: every change of a handler's persisted HandlerState is NotInstalled to
\* Installed, Installed to Enabled, Enabled to Installed, any state to Failed
\* or any state to NotInstalled; a handler becomes Enabled only from Installed.
C14_StateTransitions ==
    \A i \in StateChanges : LifecycleTransition(log[i].from, log[i].to)

\* --- what an Enabled handler has on disk ---

EnabledDirs == {k \in DOMAIN disk : disk[k].state = Enabled}

\* C15: in every state reached after an operation, a handler whose HandlerState
\* is Enabled has its base directory, HandlerManifest.json,
\* HandlerEnvironment.json and config directory on disk.
C15_EnabledHasFiles ==
    \A k \in EnabledDirs :
        disk[k].base /\ disk[k].manifest /\ disk[k].envfile /\ disk[k].conf

\* A-1.1 took over from A-1.0 in an upgrade and is Enabled when run() returns
C15_Witness ==
    /\ PassEnded
    /\ <<"A", V11>> \in EnabledDirs
    /\ ~Dir(disk, "A", V10).base
    /\ \E i \in LogIdx : log[i].k = "init" /\ log[i].dir = V11 /\ log[i].ok

\* --- the installed version ---

\* the versions of the directories of the handler whose HandlerState is there
\* and is not NotInstalled
ListedInstalled ==
    { iv.paths[i].version : i \in { j \in 1..Len(iv.paths) :
          /\ iv.paths[j].name = iv.name
          /\ iv.paths[j].isdir
          /\ iv.paths[j].state \notin {NoStateFile, NotInstalled} } }

\* C16: get_installed_version returns the greatest version, compared number by
\* number, among the Name-Version directories whose HandlerState is not
\* NotInstalled, a missing HandlerState file counting as NotInstalled, and
\* None when there is no such directory.
C16_InstalledVersion ==
    iv.done =>
        IF ListedInstalled = {} THEN iv.out = NoVersion
        ELSE /\ iv.out \in ListedInstalled
             /\ \A w \in ListedInstalled : ~VersionLT(iv.out, w)

\* 1.10 Enabled is listed before 1.9 Installed, 2.0.0 is NotInstalled: 1.10
C16_Witness ==
    /\ iv.done
    /\ iv.paths = <<LibEntry("A", L110, TRUE, Enabled), LibEntry("A", L19, TRUE, Installed),
                    LibEntry("A", D200, TRUE, NotInstalled)>>
    /\ iv.out = L110

\* --- download() ---

RoundUris == {dl.rest[j] : j \in 1..Len(dl.rest)}

\* C17: with no usable cached package download() makes at most 5 rounds over
\* the URIs, tries in a round each URI once, download then unzip, stops at the
\* first URI for which both succeed, raises the download error
\* PluginManifestDownloadError when 5 rounds brought nothing, and always ends.
C17_BoundedRounds ==
    /\ [](/\ dl.i <= 5
          /\ dl.attempts <= 5 * dl.nuris
          /\ dl.pc \in {"for", "unzip"} =>
                /\ dl.i < 5
                /\ dl.attempts = dl.i * dl.nuris + Cardinality(dl.tried)
                /\ dl.tried \cup RoundUris = 1..dl.nuris
                /\ dl.tried \cap (IF dl.pc = "unzip" THEN RoundUris \ {Head(dl.rest)} ELSE RoundUris) = {}
          /\ dl.pc = "unzip" => dl.last = "downloaded" /\ Head(dl.rest) \in dl.tried
          /\ dl.last = "unzipped" => dl.pc = "returned"
          /\ (dl.pc = "returned" /\ ~dl.package_exists) =>
                /\ dl.downloaded /\ dl.zip /\ dl.unpacked
                /\ dl.tried \cap (RoundUris \ {Head(dl.rest)}) = {}
          /\ (dl.pc = "raised" /\ dl.nuris > 0) =>
                /\ dl.i = 5
                /\ dl.attempts = 5 * dl.nuris
                /\ ~dl.downloaded
                /\ dl.exc = "ExtensionDownloadError"
                /\ dl.code = "PluginManifestDownloadError")
    /\ <>(dl.pc \in {"returned", "raised"})

\* four rounds over two URIs failed, the second URI of the fifth round was
\* downloaded and unzipped
C17_Witness ==
    /\ dl.pc = "returned"
    /\ dl.nuris = 2
    /\ ~dl.package_exists
    /\ dl.i = 4
    /\ dl.attempts = 10
    /\ dl.downloaded

\* C18: a failed download attempt leaves no destination zip, a failed unzip
\* leaves neither the zip nor the base directory, and when download() ends
\* with an error the destination zip does not exist.
C18_NoZipAfterFailure ==
    /\ dl.last = "download_failed" => ~dl.zip
    /\ dl.last = "unzip_failed" => ~dl.zip /\ ~dl.base /\ ~dl.unpacked
    /\ dl.pc = "raised" => ~dl.zip

\* an unzip failed and removed the base directory, the last of the five rounds
\* ended on a download that failed: the error is raised and no zip is left
C18_Witness ==
    /\ dl.pc = "raised"
    /\ dl.nuris = 2
    /\ dl.last = "download_failed"
    /\ ~dl.base
    /\ ~dl.zip

\* --- cleanup_outdated_handlers ---

\* cleanup_outdated_handlers has returned and nothing has run since
CleanedUp == pc = "idle" /\ cur.end = "completed"

CleanupIdx(kind) == {i \in LogIdx : log[i].k = kind}

\* C20: after cleanup_outdated_handlers the library root holds no
\* Name-Version.zip whose Name-Version directory is missing, no Name-Version
\* directory whose HandlerState is NotInstalled and no Name-Version.zip for
\* such a directory; the orphaned zips are removed before any uninstalled
\* handler directory.
C20_CleanupLeavesNoOrphans ==
    CleanedUp =>
        /\ \A k \in DOMAIN disk :
              /\ DashZip \in disk[k].zips => disk[k].base
              /\ disk[k].base => get_handler_state(disk[k]) # NotInstalled
        /\ \A i \in CleanupIdx("cleanup_pkg"), j \in CleanupIdx("cleanup_handler") : i < j

\* the upgrade removed A-1.0 and left A-1.0.zip, the install of A-1.1 failed:
\* cleanup removed the orphaned zip, then the directory A-1.1 and A-1.1.zip
C20_Witness ==
    /\ CleanedUp
    /\ \E i \in CleanupIdx("cleanup_pkg") : log[i].key = <<"A", V10>>
    /\ \E j \in CleanupIdx("cleanup_handler") : log[j].key = <<"A", V11>>
    /\ \E i \in LogIdx : log[i].k = "rmdir" /\ log[i].dir = V10
    /\ disk = EmptyDisk

\* --- the update command after it failed ---

\* the versions of handler n whose HandlerState was Failed when the pass came
\* to the handler
FailedAtDecide(n) == UNION {log[i].failed : i \in DecideIdx(n)}

UpdateCmds(n) == {i \in LogIdx : log[i].k = "cmd" /\ log[i].name = n /\ log[i].cmd = "update"}

\* C19: once the update command of a handler has failed and HandlerState
\* Failed is written, a later pass with the same goal state does not run the
\* update command for that handler again, on the upgrade path and on the
\* downgrade path alike.
C19_NoUpdateRetry ==
    \A n \in Names :
        (SameGoalStateTwice /\ FailedAtDecide(n) # {}) => UpdateCmds(n) = {}

\* --- the VM status report ---

\* report_vm_status was called in this pass
Reported == \E i \in LogIdx : log[i].k = "report_vm_status"

\* the handlers the VM status of this pass has an entry for, in order
ReportedNames == [i \in DOMAIN vm_status |-> vm_status[i].name]

\* the handlers of the goal state whose config/HandlerStatus exists
WithHandlerStatus ==
    SelectSeq(ext_handlers, LAMBDA h : Dir(disk, h.name, h.version).hstatus # NoStatus)

\* C21 as stated: every VM status posted carries an entry for every handler of
\* the goal state of the pass, also for a handler not reached because of the
\* dependency gate
C21_EntryForEveryHandler ==
    Reported => \A i \in DOMAIN ext_handlers :
                    \E j \in DOMAIN vm_status : vm_status[j].name = ext_handlers[i].name

\* C21: every VM status posted by report_vm_status carries one status entry for
\* every handler of the goal state whose config/HandlerStatus file exists when
\* the report is built, in the order of the handlers, and no other entry; a
\* handler that has no HandlerStatus file has no entry.
C21_EntryForEveryStatusFile ==
    pc = "cleanup" =>
        ReportedNames = [i \in DOMAIN WithHandlerStatus |-> WithHandlerStatus[i].name]

\* the dependency gate ended the loop at A: the report has an entry for A and
\* none for B, which was never handled and has no HandlerStatus file
C21_Witness ==
    /\ pc = "cleanup"
    /\ Reported
    /\ \E i \in LogIdx : log[i].k = "wait" /\ log[i].name = "A" /\ log[i].result = "false"
    /\ ReportedNames = <<"A">>
    /\ \E i \in DOMAIN ext_handlers : ext_handlers[i].name = "B"

\* the handling of handler n failed in this pass: its version was not found,
\* a download, an initialization, a settings write or a command failed, or the
\* wait for it did not return True
HandlingFailed(n) ==
    \/ \E i \in DecideIdx(n) : ~log[i].found
    \/ \E i \in LogIdx : /\ log[i].k \in {"cmd", "init", "settings", "event"}
                         /\ log[i].name = n /\ ~log[i].ok
    \/ \E i \in LogIdx : log[i].k = "download_error" /\ log[i].name = n
    \/ \E i \in LogIdx : log[i].k = "wait" /\ log[i].name = n /\ log[i].result # "true"

\* C22: a failure while handling a handler (version not found, download error,
\* failed command, failed or timed-out dependency wait) never prevents
\* report_vm_status from being called later in the same pass.
C22_FailureStillReported ==
    (PassEnded /\ \E n \in Names : HandlingFailed(n)) => Reported

\* --- errors that reach run() ---

\* the ExtensionProcessing events of the agent in a log
ProcessingEvents(lg) == SelectSeq(lg, LAMBDA e : e = ProcessingEvent)

\* C23: run() never lets an exception escape: once the goal state is fetched,
\* every step that ends the pass leaves run() returned (a later pass can
\* start), and a pass ended by an error raised in processing (the dependency
\* wait) or in reporting (the collection of a heartbeat) emits exactly one
\* ExtensionProcessing event for it, the last event of the pass.
C23_RunCatchesEveryError ==
    [][(pc # "idle" /\ pc' = "idle") =>
          /\ cur'.end \in {"completed", "raised"}
          /\ cur'.end = "raised" =>
                /\ Len(ProcessingEvents(log')) = Len(ProcessingEvents(log)) + 1
                /\ log'[Len(log')] = ProcessingEvent]_vars

\* the heartbeat file of a handler held an empty list: the IndexError left
\* report_ext_handlers_status, run() emitted its event and returned
C23_Witness ==
    /\ pc = "idle"
    /\ cur.end = "raised"
    /\ NotReported
    /\ \E i \in LogIdx : log[i].k = "heartbeat" /\ log[i].file = "empty"
    /\ log[Len(log)] = ProcessingEvent
    /\ Len(ProcessingEvents(log)) = 1

\* --- the processing gate ---

\* handlers were processed in this pass
Processed == \E i \in LogIdx : log[i].k = "handle"

\* a download or a lifecycle command of this pass
Acted == \E i \in LogIdx : log[i].k \in {"download", "cmd"}

\* C24: in a pass whose goal-state fetch succeeded (and whose goal state has
\* handlers), handlers are processed if and only if extensions are enabled by
\* configuration and it is not the case that overprovisioning is enabled,
\* supported by the protocol, and the artifacts profile reports on-hold; when
\* processing is skipped no download or lifecycle command runs, and VM status
\* is still reported and the sweep still runs.
C24_ProcessingGate ==
    (PassEnded /\ cur.ok /\ cur.handlers # <<>>) =>
        /\ Processed <=>
              /\ conf.extensions_enabled
              /\ ~(/\ conf.enable_overprovisioning
                   /\ conf.supports_overprovisioning
                   /\ cur.profile = "hold")
        /\ ~Processed => (~Acted /\ Reported /\ cur.end = "completed")

\* --- the status document ---

\* the status file exists and can be read, and its content is no valid status
\* document: no JSON, an empty list, a required key missing, or a status
\* outside the valid ones
InvalidStatusDoc(doc) ==
    \/ doc.file = "not_json"
    \/ /\ doc.file = "json"
       /\ \/ doc.data = <<>>
          \/ \E i \in DOMAIN doc.data :
                LET status_data == doc.data[i].status
                IN  \/ ~doc.data[i].has_status
                    \/ status_data.status \notin VALID_EXTENSION_STATUS
                    \/ status_data.formattedMessage = "no_lang"
                    \/ \E j \in DOMAIN status_data.substatus :
                          status_data.substatus[j].status \notin VALID_EXTENSION_STATUS

\* C25: when an extension's status file exists but its content is not a valid
\* status document (malformed JSON, a missing required key, an empty outer
\* array, or a status value outside the valid set), collect_ext_status returns
\* status error with code PluginSettingsStatusInvalid and raises no exception.
C25_InvalidDocumentIsStatusInvalid ==
    (cs.done /\ cs.seq_no >= 0 /\ InvalidStatusDoc(cs.doc)) =>
        /\ cs.out.kind = "status"
        /\ cs.out.status = "error"
        /\ cs.out.code = "PluginSettingsStatusInvalid"

\* --- the wait on a missing status file ---

\* the loop of handle_ext_handlers has just been through handler h: the event
\* of what stood on disk after it is the last of the log, or the last before
\* the event of an error that ended run()
AfterIdx(h) ==
    {j \in LogIdx : /\ log[j].k = "after" /\ log[j].name = h.name
                    /\ \/ j = Len(log)
                       \/ j = Len(log) - 1 /\ log[Len(log)] = ProcessingEvent}

\* the polls of the wait for extension i of handler n in this pass
PollsOf(n, i) == {j \in LogIdx : log[j].k = "poll" /\ log[j].name = n /\ log[j].ext = i}

\* C26: when an extension's goal-state sequence number is s >= 0 and
\* status/<s>.status does not exist, get_ext_handling_status returns warning
\* and is_ext_handling_complete reports the handling as incomplete; the
\* dependency wait polls until the file shows a terminal status or the
\* deadline passes: when the wait for the handler is over and the file still
\* does not exist, the wait has returned False, and the deadline has passed if
\* the wait came to that extension.
C26_MissingStatusFileKeepsWaiting ==
    \A k \in DOMAIN ext_handlers :
        LET h == ext_handlers[k]
            d == Dir(disk, h.name, h.version)
        IN  \A a \in AfterIdx(h), i \in DOMAIN h.extensions :
                LET s == h.extensions[i].sequenceNumber
                IN  (/\ log[a - 1].k = "wait"
                     /\ s >= 0
                     /\ d.conf => d.status[s] = Missing) =>
                      /\ log[a].statuses[i] = "warning"
                      /\ ~is_ext_handling_complete(log[a].statuses[i])
                      /\ log[a - 1].result = "false"
                      /\ PollsOf(h.name, i) # {} => timedOut

\* --- the heartbeat ---

\* the heartbeat files read for handler n while this pass collected the status
HeartbeatsOf(n) == {i \in LogIdx : log[i].k = "heartbeat" /\ log[i].name = n}

\* C27: for an installed handler whose manifest has reportHeartbeat=true, the
\* handler status put in the VM report is Unresponsive when the heartbeat file
\* was last modified more than 600 seconds ago, and is the heartbeat file's
\* own status when it was modified at most 600 seconds ago; with
\* reportHeartbeat false the persisted handler status is reported unchanged.
C27_HeartbeatStatus ==
    pc = "cleanup" =>
        \A j \in DOMAIN vm_status, k \in DOMAIN ext_handlers :
            LET h == ext_handlers[k]
                d == Dir(disk, h.name, h.version)
            IN  (h.name = vm_status[j].name /\ get_handler_state(d) # NotInstalled) =>
                  /\ \A i \in HeartbeatsOf(h.name) :
                        /\ log[i].age > 600 * 1000 => vm_status[j].st.status = "Unresponsive"
                        /\ (log[i].age <= 600 * 1000 /\ log[i].file \in {"Ready", "NotReady"})
                              => vm_status[j].st.status = log[i].file
                  /\ (d.manifest /\ ~d.man.reportHeartbeat) => vm_status[j].st = d.hstatus

\* --- the fetch of the goal state ---

\* the event of a fetch that has failed for long
GetArtifactExtended(lg) ==
    \E i \in DOMAIN lg : lg[i].k = "event" /\ lg[i].op = "GetArtifactExtended"

\* C28: when fetching the goal state fails, run() increments the count of
\* get_artifact_error_state, or, when the gate is then triggered, emits the
\* extended-failure event and resets the gate; it emits the event only with
\* the reset.  It returns without dispatching a handler, reporting the VM
\* status or sweeping: disk, waagent_status.json and last_etag are left
\* unchanged.  A successful fetch resets the gate.
C28_FetchFailure ==
    [][passes' = passes + 1 =>
          IF cur'.ok
          THEN get_artifact_error_state' = 0 /\ ~GetArtifactExtended(log')
          ELSE /\ pc' = "idle"
               /\ cur'.end = "fetch_failed"
               /\ \A i \in DOMAIN log' : log'[i].k = "event" /\ log'[i].name = AGENT_NAME
               /\ IF GetArtifactExtended(log')
                  THEN get_artifact_error_state' = 0
                  ELSE get_artifact_error_state' = get_artifact_error_state + 1
               /\ UNCHANGED <<disk, last_etag, info_file, report_status_error_state>>]_vars

\* the fetch failed in two passes in a row, and in the second the gate was
\* triggered: the extended event was emitted and the gate reset
C28_Witness ==
    /\ pc = "idle"
    /\ cur.end = "fetch_failed"
    /\ prev.end = "fetch_failed"
    /\ GetArtifactExtended(log)
    /\ get_artifact_error_state = 0
    /\ last_etag = prev.last_etag

\* --- errors of the status collection ---

\* C29: when collecting the extension status or the heartbeat of a handler
\* raises an extension error during status reporting, the handler status
\* carried for that handler in the VM report of the same pass has that error's
\* code and message.
C29_CollectionErrorReported ==
    pc = "cleanup" =>
        \A i \in LogIdx :
            log[i].k = "collect_error" =>
                \E j \in DOMAIN vm_status :
                    /\ vm_status[j].name = log[i].name
                    /\ vm_status[j].st.code = log[i].code
                    /\ vm_status[j].st.message = log[i].message

\* --- waagent_status.json ---

\* C30 as stated: every run() pass rewrites waagent_status.json, whatever
\* happened earlier in the pass, a goal-state fetch failure included
C30_EveryPassRewrites ==
    (pc = "idle" /\ passes > 0) => info_file.pass = passes

\* C30: a pass rewrites waagent_status.json as a whole when it comes to the end
\* of report_ext_handlers_status, also after a handler failure and after a
\* failure of the status upload: the file then holds one entry for every
\* handler status of the VM report of the pass, with name, version and status.
\* A pass whose goal-state fetch failed, or that an error ended in the
\* processing or in the collection of the statuses, leaves the file as it
\* was.  The handler entries never carry the code, message or extensions
\* fields.
C30_InfoFile ==
    /\ pc = "cleanup" =>
          info_file = [pass |-> passes,
                       extensions_status |->
                           [i \in DOMAIN vm_status |->
                               [name |-> vm_status[i].name,
                                version |-> vm_status[i].st.version,
                                status |-> vm_status[i].st.status]]]
    /\ (pc = "idle" /\ passes > 0) => (info_file.pass = passes <=> cur.end = "completed")
    /\ pc \in {"handle", "report"} => info_file.pass < passes
    /\ \A i \in DOMAIN info_file.extensions_status :
          DOMAIN info_file.extensions_status[i] \cap {"code", "message", "extensions"} = {}

\* the upload of the VM status failed with a ProtocolError after the handling
\* of a handler had failed; the file was written in this pass all the same,
\* with the entry of the handler
C30_Witness ==
    /\ pc = "cleanup"
    /\ \E i \in LogIdx : log[i].k = "report_vm_status" /\ log[i].result = "ProtocolError"
    /\ \E n \in Names : HandlingFailed(n)
    /\ info_file.pass = passes
    /\ info_file.extensions_status # <<>>

\* ------------------------------------------------------------------------
\* The deadline of the dependency wait
\* ------------------------------------------------------------------------

\* the waits of the pass that ended with the deadline passed
LateWaits == {i \in LogIdx : log[i].k = "wait" /\ log[i + 1].k = "after" /\ log[i + 1].late}

\* C31: a wait that ends once the deadline of the pass has passed returns
\* False, no handler is handled after it, and the pass goes on to status
\* reporting
C31_DeadlineEndsWaitWithFalse ==
    \A i \in LateWaits :
        /\ log[i].result = "false"
        /\ \A j \in LogIdx : j > i => log[j].k # "handle"
        /\ pc # "handle"
        /\ PassEnded => cur.end = "completed" \/ \E j \in LogIdx : log[j].k = "report_vm_status"

\* ------------------------------------------------------------------------
\* The environment of a lifecycle command
\* ------------------------------------------------------------------------

PhaseVariables ==
    {"VERSION", "AZURE_GUEST_AGENT_DISABLE_FAILED", "AZURE_GUEST_AGENT_UNINSTALL_FAILED"}

\* C32: every command gets the variables its phase set with the values the
\* phase gave them, not the agent's own, and the extension path and version of
\* the directory it runs in
C32_PhaseVariablesReachChild ==
    \A i \in LogIdx :
        log[i].k = "cmd" =>
            /\ log[i].env.phase \cap PhaseVariables \cap log[i].env.inherited = {}
            /\ log[i].env.path = <<log[i].name, log[i].dir>>
            /\ log[i].env.extversion = log[i].dir

\* ------------------------------------------------------------------------
\* The gate of the download failures
\* ------------------------------------------------------------------------

\* a download failure of the pass stands counted in get_artifact_error_state
DownloadFailureCounted ==
    /\ pc = "idle"
    /\ get_artifact_error_state > 0
    /\ \E i \in LogIdx : log[i].k = "download_error"

\* C33: the download failures counted in a pass are still counted when the
\* next pass, its fetch succeeding, starts to handle the handlers, so that they
\* accumulate across passes until the gate triggers
C33_DownloadFailuresAccumulate ==
    [][(DownloadFailureCounted /\ cur'.ok) =>
           get_artifact_error_state' >= get_artifact_error_state]_vars

\* ------------------------------------------------------------------------
\* The dependency wait and the target state
\* ------------------------------------------------------------------------

ProcessingAllowed ==
    /\ cur'.ok
    /\ conf.extensions_enabled
    /\ ~(conf.enable_overprovisioning /\ conf.supports_overprovisioning
         /\ cur'.profile = "hold")

\* the step in which handle_ext_handlers returns to run() without raising
HandlersReturned == pc # "report" /\ pc' = "report" /\ ProcessingAllowed

\* C35: last_etag becomes the etag of the pass in the step in which
\* handle_ext_handlers, processing being allowed, returns without raising, and
\* no other step changes it
C35_LastEtagSetOnReturn ==
    [][IF HandlersReturned THEN last_etag' = etag' ELSE last_etag' = last_etag]_vars

\* a pass cut short by the dependency gate has set last_etag
C35_Witness ==
    /\ pc = "report"
    /\ \E i \in LogIdx : log[i].k = "wait" /\ log[i].result = "false"
    /\ idx < Len(ext_handlers)
    /\ last_etag = etag
    /\ cur.last_etag # etag

\* ------------------------------------------------------------------------
\* The handlers a cut pass left out
\* ------------------------------------------------------------------------

\* the version decision of handler n in the pass found a package and no
\* installed version
DecidedNotInstalled(n) ==
    \E i \in LogIdx :
        /\ log[i].k = "decide" /\ log[i].name = n
        /\ log[i].found /\ log[i].installed = NoVersion

\* C36: a handler with target enabled that the previous pass, cut short by the
\* dependency gate, did not reach, and that the loop reaches in this pass of
\* the same etag, is dispatched on its target state
C36_LeftOutHandlerDispatchedLater ==
    \A j \in 1..Len(ext_handlers) :
        ( /\ prev.cut > 0 /\ j > prev.cut
          /\ cur.ok /\ prev.etag = etag
          /\ ext_handlers[j].state = "enabled"
          /\ Handled(ext_handlers[j].name)
          /\ DecidedNotInstalled(ext_handlers[j].name) )
        => Targeted(ext_handlers[j].name, "enabled")

\* ------------------------------------------------------------------------
\* enable after a failure
\* ------------------------------------------------------------------------

\* a command of the installed version failed in the update sequence of
\* handler n and the new manifest does not say continueOnUpdateFailure
UpdateSequenceStopped(n) ==
    /\ UpgradeOf(n)
    /\ ~NewManifest(n).continueOnUpdateFailure
    /\ \E i \in LogIdx :
         /\ log[i].k = "cmd" /\ log[i].name = n /\ ~log[i].ok
         /\ log[i].cmd \in {"disable", "uninstall"}
         /\ log[i].dir = OldVersion(n)

\* in the pass the download of handler n, its initialization, the write of its
\* settings, its install command or its update sequence failed
StepFailed(n) ==
    \/ \E i \in LogIdx : log[i].k = "download_error" /\ log[i].name = n
    \/ \E i \in LogIdx : log[i].k \in {"init", "settings"} /\ log[i].name = n /\ ~log[i].ok
    \/ \E i \in LogIdx : /\ log[i].k = "cmd" /\ log[i].name = n /\ ~log[i].ok
                         /\ log[i].cmd \in {"install", "update"}
    \/ UpdateSequenceStopped(n)

\* C37: in a pass in which a step of handler n before enable failed no enable
\* command is run for n and no HandlerState of n is set to Enabled
C37_NoEnableAfterFailure ==
    \A n \in Names :
        StepFailed(n) =>
            \A i \in LogIdx :
                /\ ~(log[i].k = "cmd" /\ log[i].name = n /\ log[i].cmd = "enable")
                /\ ~(log[i].k = "state" /\ log[i].name = n /\ log[i].to = Enabled)

\* the install command of A failed and its handling is over
C37_Witness ==
    /\ pc = "report"
    /\ Targeted("A", "enabled")
    /\ \E i \in LogIdx : /\ log[i].k = "cmd" /\ log[i].name = "A" /\ ~log[i].ok
                         /\ log[i].cmd = "install"

\* ------------------------------------------------------------------------
\* One installed version per handler
\* ------------------------------------------------------------------------

\* the versions of handler n whose directory has a HandlerState other than
\* NotInstalled
InstalledVersions(n) ==
    {v \in DirVersions : get_handler_state(Dir(disk, n, v)) # NotInstalled}

\* C38: when run() has returned at most one Name-Version directory of a
\* handler name has a HandlerState other than NotInstalled
C38_OneInstalledVersion ==
    PassEnded => \A n \in Names : Cardinality(InstalledVersions(n)) <= 1

\* ------------------------------------------------------------------------
\* The wait on extensions that have succeeded
\* ------------------------------------------------------------------------

====
